---- MODULE Spec2Model ----
(***************************************************************************)
(* Model of the cricket question-to-answer pipeline:                       *)
(*   LanggraphService (src/src/cricket/services/langgraph.service.ts),     *)
(*   MemoryService    (src/src/cricket/services/memory.service.ts),        *)
(*   CricketController.askQuestion (src/src/cricket/cricket.controller.ts).*)
(*                                                                         *)
(* JSON values are tagged records.  A leaf is [t, n, s]: t is the          *)
(* JavaScript type tag, n the numeric payload, s the string payload as a   *)
(* sequence of one-character strings.  A filter value additionally has o,  *)
(* its own properties as a function over OperatorKeys.  An absent property *)
(* reads as the value tagged "undef".                                      *)
(***************************************************************************)
EXTENDS Integers, Sequences, FiniteSets, TLC

VARIABLES
  sanIn,          \* the argument of a stand-alone sanitizeQuery call
  sanOut,         \* its result
  sanDone,        \* the call has returned
  apiKey,         \* process.env.OPENROUTER_API_KEY is set
  workflowTrace,  \* LanggraphService.workflowTrace, shared by all requests:
                  \* its entries in array order, grouped by pushing request
  conversations,  \* conversationModel: per user, the turn ids by timestamp
  summaries,      \* summaryModel: per user, the summary record if any
  nextId,         \* the _id of the next stored turn
  proc            \* per request: its position, locals and response

sanVars == <<sanIn, sanOut, sanDone>>

pipeVars == <<apiKey, workflowTrace, conversations, summaries, nextId, proc>>

vars == <<sanIn, sanOut, sanDone, apiKey, workflowTrace, conversations,
          summaries, nextId, proc>>

----------------------------------------------------------------------------
(* Bounds of the explored input space.                                     *)

MaxFilterKeys == 2

MaxSortKeys == 1

(* Requests handled by the one service instance, possibly overlapping.     *)
NumRequests == 2

(* Largest number of records the player store returns for one query.       *)
MaxRecords == 2

----------------------------------------------------------------------------
(* JSON values.                                                            *)

Undef == [t |-> "undef", n |-> 0, s |-> <<>>]

Null == [t |-> "null", n |-> 0, s |-> <<>>]

Num(k) == [t |-> "num", n |-> k, s |-> <<>>]

Inf == [t |-> "inf", n |-> 0, s |-> <<>>]

Str(chars) == [t |-> "str", n |-> 0, s |-> chars]

Bool(b) == [t |-> "bool", n |-> IF b THEN 1 ELSE 0, s |-> <<>>]

EmptyObj == [t |-> "obj", n |-> 0, s |-> <<>>]

EmptyArr == [t |-> "arr", n |-> 0, s |-> <<>>]

OperatorKeys == {"$regex", "$options", "$ne", "$gt"}

NoProps == [k \in OperatorKeys |-> Undef]

Val(leaf) == [t |-> leaf.t, n |-> leaf.n, s |-> leaf.s, o |-> NoProps]

Obj(props) == [t |-> "obj", n |-> 0, s |-> <<>>, o |-> props]

UndefV == Val(Undef)

(* typeof v === 'object': objects, arrays and null.                        *)
TypeofObject(v) == v.t \in {"obj", "arr", "null"}

(* Reading a property of null or undefined throws a TypeError.             *)
Nullish(v) == v.t \in {"undef", "null"}

(* JavaScript truthiness of a value.                                       *)
Truthy(v) ==
  CASE v.t \in {"undef", "null"} -> FALSE
    [] v.t \in {"num", "bool"} -> v.n # 0
    [] v.t = "str" -> v.s # <<>>
    [] OTHER -> TRUE

----------------------------------------------------------------------------
(* String conversions used by the sanitizer.                               *)

UpperChars == <<"A","B","C","D","E","F","G","H","I","J","K","L","M",
                "N","O","P","Q","R","S","T","U","V","W","X","Y","Z">>

LowerChars == <<"a","b","c","d","e","f","g","h","i","j","k","l","m",
                "n","o","p","q","r","s","t","u","v","w","x","y","z">>

ToLowerChar(c) ==
  IF \E i \in DOMAIN UpperChars : UpperChars[i] = c
  THEN LowerChars[CHOOSE i \in DOMAIN UpperChars : UpperChars[i] = c]
  ELSE c

(* String.prototype.toLowerCase *)
ToLowerCase(str) == [i \in DOMAIN str |-> ToLowerChar(str[i])]

WhiteSpace == {" ", "\t", "\n"}

RECURSIVE TrimStart(_)
TrimStart(str) ==
  IF str # <<>> /\ Head(str) \in WhiteSpace THEN TrimStart(Tail(str)) ELSE str

RECURSIVE TrimEnd(_)
TrimEnd(str) ==
  IF str # <<>> /\ str[Len(str)] \in WhiteSpace
  THEN TrimEnd(SubSeq(str, 1, Len(str) - 1))
  ELSE str

(* String.prototype.trim *)
Trim(str) == TrimEnd(TrimStart(str))

RegexFlagChars == {"i", "m", "s", "x"}

IsFlagChar(c) == c \in RegexFlagChars

(* val.$options.replace(/[^imsx]/g, '') *)
StripFlags(str) == SelectSeq(str, IsFlagChar)

Digits == <<"0","1","2","3","4","5","6","7","8","9">>

IsDigit(c) == \E i \in DOMAIN Digits : Digits[i] = c

DigitVal(c) == (CHOOSE i \in DOMAIN Digits : Digits[i] = c) - 1

RECURSIVE DigitsValue(_)
DigitsValue(str) ==
  IF str = <<>> THEN 0
  ELSE 10 * DigitsValue(SubSeq(str, 1, Len(str) - 1)) + DigitVal(str[Len(str)])

AllDigits(str) == \A i \in DOMAIN str : IsDigit(str[i])

NaN == [finite |-> FALSE, n |-> 0]

Finite(k) == [finite |-> TRUE, n |-> k]

(* Number(string): the trimmed text is empty (0), an optionally signed     *)
(* decimal integer, or not a number.                                       *)
StringToNumber(str) ==
  LET body == Trim(str) IN
  IF body = <<>> THEN Finite(0)
  ELSE IF AllDigits(body) THEN Finite(DigitsValue(body))
  ELSE IF Head(body) = "-" /\ Len(body) > 1 /\ AllDigits(Tail(body))
       THEN Finite(0 - DigitsValue(Tail(body)))
  ELSE NaN

(* Number(value) *)
ToNumber(v) ==
  CASE v.t = "undef" -> NaN
    [] v.t = "null" -> Finite(0)
    [] v.t \in {"num", "bool"} -> Finite(v.n)
    [] v.t = "inf" -> NaN
    [] v.t = "str" -> StringToNumber(v.s)
    [] v.t = "arr" -> Finite(0)
    [] OTHER -> NaN

Min(a, b) == IF a < b THEN a ELSE b

Max(a, b) == IF a > b THEN a ELSE b

----------------------------------------------------------------------------
(* sanitizeQuery                                                           *)

sFind == <<"f","i","n","d">>

sFindOne == <<"f","i","n","d","O","n","e">>

safeTypes == {sFind, sFindOne}

safeSortFields ==
  {"runs", "average", "strikeRate", "matches", "innings", "centuries",
   "fifties", "ducks"}

safeFilterFields ==
  {"name", "country", "format", "runs", "average", "strikeRate", "matches",
   "innings", "centuries", "fifties", "ducks"}

(* Keys outside the allowlist that an untrusted query may carry.           *)
ForeignKeys == {"$where", "highestScore"}

QueryKeys == safeFilterFields \cup ForeignKeys

sTest == <<"t","e","s","t">>

sOdi == <<"o","d","i">>

sT20 == <<"t","2","0">>

LimitFloor == 1

LimitCeiling == 50

NoFilter == [k \in QueryKeys |-> UndefV]

NoSortKeys == [k \in QueryKeys |-> Undef]

(* A value in the filter or sort position: its tag, payload and own keys.  *)
Holder(leaf, keys) == [t |-> leaf.t, n |-> leaf.n, s |-> leaf.s, f |-> keys]

NoSort == [present |-> FALSE, dir |-> [k \in QueryKeys |-> 0]]

NoLimit == [present |-> FALSE, n |-> 0]

(* queryObj?.prop: undefined when queryObj is null or undefined.           *)
OptionalProp(queryObj, prop) ==
  IF queryObj.kind # "obj" THEN
    (IF prop = "filter" THEN Holder(Undef, NoFilter)
     ELSE IF prop = "sort" THEN Holder(Undef, NoSortKeys)
     ELSE Undef)
  ELSE queryObj[prop]

(* queryObj.prop without the optional chain throws on null / undefined.    *)
PropThrows(queryObj) == queryObj.kind # "obj"

(* const type = safeTypes.has(queryObj?.type) ? queryObj.type : 'find'     *)
SanitizeType(queryObj) ==
  LET ty == OptionalProp(queryObj, "type")
      known == ty.t = "str" /\ ty.s \in safeTypes
  IN [threw |-> known /\ PropThrows(queryObj),
      type |-> IF known /\ ty.s = sFindOne THEN "findOne" ELSE "find"]

(* (queryObj?.filter && typeof queryObj.filter === 'object')               *)
(*    ? queryObj.filter : {}                                               *)
RawFilter(queryObj) ==
  LET fl == OptionalProp(queryObj, "filter") IN
  IF Truthy(fl) /\ TypeofObject(fl)
  THEN [threw |-> PropThrows(queryObj), v |-> fl]
  ELSE [threw |-> FALSE, v |-> Holder(EmptyObj, NoFilter)]

(* (queryObj?.sort && typeof queryObj.sort === 'object')                   *)
(*    ? queryObj.sort : undefined                                          *)
RawSort(queryObj) ==
  LET st == OptionalProp(queryObj, "sort") IN
  IF Truthy(st) /\ TypeofObject(st)
  THEN [threw |-> PropThrows(queryObj), v |-> st]
  ELSE [threw |-> FALSE, v |-> Holder(Undef, NoSortKeys)]

(* The accepted part of a name/country object value.                       *)
AllowedRegexObj(val) ==
  [k \in OperatorKeys |->
     IF k = "$regex" /\ val.o["$regex"].t = "str" THEN val.o["$regex"]
     ELSE IF k = "$options" /\ val.o["$options"].t = "str"
          THEN Str(StripFlags(val.o["$options"].s))
     ELSE Undef]

(* if ((key === 'name' || key === 'country') && val && typeof val === 'object') *)
RegexBranch(key, val) ==
  key \in {"name", "country"} /\ Truthy(val) /\ TypeofObject(val)

(* One iteration of the filter loop: the value stored under key (the       *)
(* undefined value when the key is skipped), and whether it threw.         *)
SanitizeFilterEntry(key, val) ==
  IF val.t = "undef" \/ key \notin safeFilterFields
  THEN [threw |-> FALSE, v |-> UndefV]
  ELSE IF key = "format" /\ val.t = "str" THEN
    LET normalized == Trim(ToLowerCase(val.s)) IN
    IF normalized = sTest \/ normalized = sOdi \/ normalized = sT20
    THEN [threw |-> FALSE, v |-> Val(Str(normalized))]
    ELSE [threw |-> FALSE, v |-> UndefV]
  ELSE IF RegexBranch(key, val) THEN
    LET allowedRegexObj == AllowedRegexObj(val) IN
    IF \E k \in OperatorKeys : allowedRegexObj[k].t # "undef"
    THEN [threw |-> Nullish(val), v |-> Obj(allowedRegexObj)]
    ELSE [threw |-> Nullish(val), v |-> UndefV]
  ELSE [threw |-> FALSE, v |-> val]

(* for (const key of Object.keys(rawFilter)) ...                           *)
SanitizeFilter(rawFilter) ==
  LET entry == [key \in QueryKeys |-> SanitizeFilterEntry(key, rawFilter.f[key])]
  IN [threw |-> Nullish(rawFilter) \/ \E key \in QueryKeys : entry[key].threw,
      v |-> [key \in QueryKeys |-> entry[key].v]]

(* The ternary with its branches exchanged: rawSort[key] === 1 ? -1 : 1.   *)
SanitizeSortEntryInverted(key, val) ==
  IF val.t = "undef" \/ key \notin safeSortFields THEN 0
  ELSE IF val.t = "num" /\ val.n = 1 THEN -1
  ELSE 1

(* sort[key] = rawSort[key] === 1 ? 1 : -1 for the keys that are kept.     *)
SanitizeSortEntry(key, val) ==
  IF val.t = "undef" \/ key \notin safeSortFields THEN 0
  ELSE IF val.t = "num" /\ val.n = 1 THEN 1
  ELSE -1

(* if (rawSort) { sort = {}; ...; if (no keys) sort = undefined }          *)
SanitizeSort(rawSort) ==
  LET dir == [key \in QueryKeys |-> SanitizeSortEntry(key, rawSort.f[key])] IN
  IF Truthy(rawSort) /\ \E key \in QueryKeys : dir[key] # 0
  THEN [present |-> TRUE, dir |-> dir]
  ELSE NoSort

(* The clamp without its lower bound: Math.min(rawLimit, 50).              *)
SanitizeLimitNoFloor(queryObj) ==
  LET rawLimit == ToNumber(OptionalProp(queryObj, "limit")) IN
  IF rawLimit.finite
  THEN [present |-> TRUE, n |-> Min(rawLimit.n, LimitCeiling)]
  ELSE [present |-> FALSE, n |-> 0]

(* Number.isFinite(rawLimit) ? Math.min(Math.max(rawLimit, 1), 50) : undefined *)
SanitizeLimit(queryObj) ==
  LET rawLimit == ToNumber(OptionalProp(queryObj, "limit")) IN
  IF rawLimit.finite
  THEN [present |-> TRUE, n |-> Min(Max(rawLimit.n, LimitFloor), LimitCeiling)]
  ELSE NoLimit

sanitizeQuery(queryObj) ==
  LET ty == SanitizeType(queryObj)
      rawFilter == RawFilter(queryObj)
      rawSort == RawSort(queryObj)
      filter == SanitizeFilter(rawFilter.v)
  IN [threw |-> ty.threw \/ rawFilter.threw \/ rawSort.threw \/ filter.threw,
      type |-> ty.type,
      filter |-> filter.v,
      sort |-> SanitizeSort(rawSort.v),
      limit |-> SanitizeLimit(queryObj)]

----------------------------------------------------------------------------
(* Untrusted query objects handed to the sanitizer.                        *)

sBabar == <<"B","a","b","a","r">>

OnlyProps(regex, options, ne) ==
  Obj([k \in OperatorKeys |->
         CASE k = "$regex" -> regex [] k = "$options" -> options
           [] k = "$ne" -> ne [] OTHER -> Undef])

FormatValues ==
  <<Val(Str(<<" ","T","2","0"," ">>)), Val(Str(sT20)), Val(Str(<<"O","D","I">>)),
    Val(Str(<<"T","e","s","t">>)), Val(Str(<<"t","1","0">>)), Val(Str(<<>>)),
    Val(Num(5)), Val(Null), Val(EmptyArr), OnlyProps(Undef, Undef, Str(sT20))>>

NameValues ==
  <<Val(Str(sBabar)), Val(Null), Val(EmptyArr),
    OnlyProps(Undef, Undef, Undef),
    OnlyProps(Str(sBabar), Undef, Undef),
    OnlyProps(Str(sBabar), Str(<<"i">>), Undef),
    OnlyProps(Str(sBabar), Str(<<"g","i","$","x">>), Undef),
    OnlyProps(Str(sBabar), Num(1), Str(<<"x">>)),
    OnlyProps(Undef, Str(<<"i">>), Undef),
    OnlyProps(Undef, Str(<<"g">>), Undef),
    OnlyProps(Undef, Undef, Str(<<"x">>)),
    OnlyProps(Num(1), Undef, Undef)>>

NumericValues ==
  <<Val(Num(100)), Val(Str(<<"x">>)), Obj([NoProps EXCEPT !["$gt"] = Num(50)])>>

ForeignValues ==
  <<Val(Str(<<"1","=","=","1">>)), OnlyProps(Undef, Undef, Num(0))>>

ValuesFor(key) ==
  CASE key = "format" -> FormatValues
    [] key \in {"name", "country"} -> NameValues
    [] key \in ForeignKeys -> ForeignValues
    [] OTHER -> NumericValues

SortDirections ==
  <<Num(1), Num(-1), Num(0), Str(<<"a","s","c">>), Str(<<"1">>)>>

KeySeq ==
  <<"name", "country", "format", "runs", "average", "strikeRate", "matches",
    "innings", "centuries", "fifties", "ducks", "$where", "highestScore">>

(* A choice of at most n keys: indices into KeySeq in increasing order,    *)
(* 0 for an unused slot, unused slots last.                                *)
KeyChoices(n) ==
  {ks \in [1..n -> 0..Len(KeySeq)] :
     \A i, j \in 1..n :
       i < j => (ks[j] # 0 => (ks[i] # 0 /\ ks[i] < ks[j]))}

Chosen(ks, key) == \E i \in DOMAIN ks : ks[i] # 0 /\ KeySeq[ks[i]] = key

SlotOf(ks, key) == CHOOSE i \in DOMAIN ks : ks[i] # 0 /\ KeySeq[ks[i]] = key

FilterFits(ks, vs) ==
  \A i \in DOMAIN ks :
    IF ks[i] = 0 THEN vs[i] = 1 ELSE vs[i] <= Len(ValuesFor(KeySeq[ks[i]]))

FilterOf(ks, vs) ==
  [key \in QueryKeys |->
     IF Chosen(ks, key) THEN ValuesFor(key)[vs[SlotOf(ks, key)]] ELSE UndefV]

SortOf(ks, vs) ==
  [key \in QueryKeys |->
     IF Chosen(ks, key) THEN SortDirections[vs[SlotOf(ks, key)]] ELSE Undef]

SortFits(ks, vs) == \A i \in DOMAIN ks : ks[i] = 0 => vs[i] = 1

NonObjectLeaves == {Undef, Null, Str(<<"x">>), Num(3), EmptyArr}

LimitInputs ==
  {Undef, Null, Inf, EmptyObj, EmptyArr, Bool(TRUE),
   Str(<<"1","0">>), Str(<<"a","b","c">>), Str(<<" ">>), Str(<<"-","3">>)} \cup
  {Num(k) : k \in {-5, 0, 1, 5, 49, 50, 51, 1000}}

TypeInputs ==
  {Undef, Null, Num(1), Str(sFind), Str(sFindOne),
   Str(<<"a","g","g","r","e","g","a","t","e">>), Str(<<"F","I","N","D">>)}

Query(ty, fl, st, lim) ==
  [kind |-> "obj", type |-> ty, filter |-> fl, sort |-> st, limit |-> lim]

(* null / undefined in place of the query object.                          *)
NullishQuery(kind) ==
  [kind |-> kind, type |-> Undef, filter |-> Holder(Undef, NoFilter),
   sort |-> Holder(Undef, NoSortKeys), limit |-> Undef]

runsAscending == Holder(EmptyObj, [NoSortKeys EXCEPT !["runs"] = Num(1)])

whereFilter ==
  Holder(EmptyObj, [NoFilter EXCEPT !["$where"] = Val(Str(<<"1","=","=","1">>))])

(* The result record before sanitizeQuery has run.                         *)
NotRun ==
  [threw |-> FALSE, type |-> "find", filter |-> NoFilter, sort |-> NoSort,
   limit |-> NoLimit]

(* The object sanitizeQuery returned, { type, filter, sort, limit }, read   *)
(* as a query object again: an absent sort or limit is undefined.          *)
AsQueryObject(safeQuery) ==
  Query(Str(IF safeQuery.type = "findOne" THEN sFindOne ELSE sFind),
        Holder(EmptyObj, safeQuery.filter),
        IF safeQuery.sort.present
        THEN Holder(EmptyObj,
                    [key \in QueryKeys |->
                       IF safeQuery.sort.dir[key] = 0 THEN Undef
                       ELSE Num(safeQuery.sort.dir[key])])
        ELSE Holder(Undef, NoSortKeys),
        IF safeQuery.limit.present THEN Num(safeQuery.limit.n) ELSE Undef)

----------------------------------------------------------------------------
(* Question text and the keyword heuristics.                               *)

(* String.prototype.includes *)
Includes(str, sub) ==
  \E i \in 0..(Len(str) - Len(sub)) : SubSeq(str, i + 1, i + Len(sub)) = sub

cricketKeywords ==
  {<<"c","r","i","c","k","e","t">>,
   <<"t","e","s","t">>,
   <<"o","d","i">>,
   <<"t","2","0">>,
   <<"t","-","2","0">>,
   <<"i","p","l">>,
   <<"b","b","l">>,
   <<"p","s","l">>,
   <<"r","u","n","s">>,
   <<"r","u","n">>,
   <<"a","v","e","r","a","g","e">>,
   <<"s","t","r","i","k","e"," ","r","a","t","e">>,
   <<"s","r">>,
   <<"c","e","n","t","u","r","y">>,
   <<"h","u","n","d","r","e","d">>,
   <<"f","i","f","t","y">>,
   <<"d","u","c","k">>,
   <<"b","a","t","s","m","a","n">>,
   <<"b","a","t","t","e","r">>,
   <<"p","l","a","y","e","r">>,
   <<"i","n","n","i","n","g","s">>,
   <<"m","a","t","c","h">>,
   <<"h","i","g","h","e","s","t"," ","s","c","o","r","e">>,
   <<"t","o","p">>,
   <<"m","o","s","t">>}

(* The alternatives of the regular expression tested after a model error.  *)
errorFallbackWords ==
  {<<"c","r","i","c","k","e","t">>,
   <<"t","e","s","t">>,
   <<"o","d","i">>,
   <<"t","2","0">>,
   <<"r","u","n","s">>,
   <<"a","v","e","r","a","g","e">>,
   <<"s","t","r","i","k","e">>,
   <<"c","e","n","t","u","r","y">>,
   <<"p","l","a","y","e","r">>,
   <<"b","a","t","s","m","a","n">>,
   <<"i","n","n","i","n","g","s">>,
   <<"m","a","t","c","h">>}

(* The keyword test without the keyword 'top'.                             *)
KeywordRelevancyWithoutTop(question) ==
  LET q == ToLowerCase(question) IN
  \E k \in cricketKeywords \ {<<"t","o","p">>} : Includes(q, k)

(* cricketKeywords.some(k => q.includes(k)) on the lower-cased question.   *)
KeywordRelevancy(question) ==
  LET q == ToLowerCase(question) IN \E k \in cricketKeywords : Includes(q, k)

(* /cricket|test|...|match/.test(q) on the lower-cased question.           *)
ErrorFallbackRelevancy(question) ==
  LET q == ToLowerCase(question) IN \E k \in errorFallbackWords : Includes(q, k)

sTrue == <<"t","r","u","e">>

sFalse == <<"f","a","l","s","e">>

(* response.content.toString().toLowerCase().trim() === 'true'             *)
ModelRelevancy(text) == Trim(ToLowerCase(text)) = sTrue

sBabarLower == <<"b","a","b","a","r">>

sKohli == <<"k","o","h","l","i">>

sVirat == <<"v","i","r","a","t">>

sKohliVirat == <<"K","o","h","l","i","|","V","i","r","a","t">>

runsDescending == Holder(EmptyObj, [NoSortKeys EXCEPT !["runs"] = Num(-1)])

FallbackLimit == 5

(* A fallback that asks for every record: limit 0.                         *)
FallbackQueryUnlimited(filter) ==
  Query(Str(sFind), Holder(EmptyObj, filter), runsDescending, Num(0))

FallbackQuery(filter) ==
  Query(Str(sFind), Holder(EmptyObj, filter), runsDescending, Num(FallbackLimit))

RegexI(pattern) == OnlyProps(Str(pattern), Str(<<"i">>), Undef)

generateQueryFallback(question) ==
  LET lowerQuestion == ToLowerCase(question) IN
  IF Includes(lowerQuestion, sBabarLower) /\ Includes(lowerQuestion, sT20) THEN
    FallbackQuery([NoFilter EXCEPT !["name"] = RegexI(sBabar),
                                   !["format"] = Val(Str(sT20))])
  ELSE IF Includes(lowerQuestion, sBabarLower) THEN
    FallbackQuery([NoFilter EXCEPT !["name"] = RegexI(sBabar)])
  ELSE IF Includes(lowerQuestion, sKohli) \/ Includes(lowerQuestion, sVirat) THEN
    FallbackQuery([NoFilter EXCEPT !["name"] = RegexI(sKohliVirat)])
  ELSE IF Includes(lowerQuestion, sT20) THEN
    FallbackQuery([NoFilter EXCEPT !["format"] = Val(Str(sT20))])
  ELSE IF Includes(lowerQuestion, sOdi) THEN
    FallbackQuery([NoFilter EXCEPT !["format"] = Val(Str(sOdi))])
  ELSE IF Includes(lowerQuestion, sTest) THEN
    FallbackQuery([NoFilter EXCEPT !["format"] = Val(Str(sTest))])
  ELSE FallbackQuery(NoFilter)

----------------------------------------------------------------------------
(* Inputs of the pipeline.                                                 *)

qTopScorers == <<"t","o","p"," ","s","c","o","r","e","r","s">>

qBabarT20 == <<"b","a","b","a","r"," ","a","z","a","m"," ","T","2","0">>

qWhoIsBabar == <<"W","h","o"," ","i","s"," ","B","a","b","a","r">>

qWeather == <<"w","e","a","t","h","e","r"," ","t","o","d","a","y">>

Questions == {qTopScorers, qBabarT20, qWhoIsBabar, qWeather}

Users == {"default", "u1"}

(* The users the modelled requests come from (askQuestion: userId ||       *)
(* 'default'); the other user's memory is only ever at rest.               *)
Askers == {"default"}

Requests == 1..NumRequests

(* What the model answers to the relevancy prompt.                         *)
RelevancyTexts ==
  {sTrue, <<" ","T","r","u","e","\n">>, sFalse, <<"Y","e","s",".">>}

(* Query objects the model output parses to.                               *)
ModelQueries ==
  {Query(Str(sFind),
         Holder(EmptyObj, [NoFilter EXCEPT !["name"] = RegexI(sBabar),
                                           !["format"] = Val(Str(<<"T","2","0">>))]),
         runsDescending, Num(5)),
   Query(Undef, whereFilter, runsAscending, Num(1000)),
   Query(Str(sFindOne),
         Holder(EmptyObj, [NoFilter EXCEPT !["name"] = RegexI(sKohliVirat)]),
         Holder(Undef, NoSortKeys), Undef),
   Query(Undef, Holder(Undef, NoFilter), Holder(Undef, NoSortKeys), Undef),
   Query(Str(sFind), Holder(EmptyObj, NoFilter), runsDescending, Null),
   Query(Str(sFind),
         Holder(EmptyObj, [NoFilter EXCEPT !["format"] = Obj([NoProps EXCEPT !["$ne"] = Str(sT20)])]),
         runsDescending, Str(<<"a","l","l">>))}

(* error.message of a failed store call.                                   *)
StoreErrors == {"", "connection closed"}

----------------------------------------------------------------------------
(* Conversation memory constants.                                          *)

(* saveConversation summarizes when the user's count exceeds this.         *)
SummarizeThreshold == 20

(* summarizeAndCleanup keeps this many of the latest turns.                *)
KeepRecent == 5

(* summarizeAndCleanup returns early up to this many turns.                *)
MinToSummarize == 10

(* getMemory reads this many of the latest turns.                          *)
RecentTurns == 10

NoSummary == [present |-> FALSE, conversationCount |-> 0, covers |-> {}]

Reverse(seq) == [i \in 1..Len(seq) |-> seq[Len(seq) + 1 - i]]

(* The turns of a user are kept in timestamp order, oldest first.          *)
(* find({ userId }).sort({ timestamp: -1 }).limit(10): the latest turns,   *)
(* newest first.                                                           *)
RecentConversations(turns) ==
  SubSeq(Reverse(turns), 1, Min(RecentTurns, Len(turns)))

(* One piece of the memory text and the turns whose content it renders:    *)
(* the stored summary, the history header, or turn number n.               *)
MemoryPart(kind, n, renders) == [kind |-> kind, n |-> n, renders |-> renders]

(* getMemory listing the turns as the find returned them, newest first.    *)
MemoryContextNewestFirst(summary, recentConversations) ==
  (IF summary.present
   THEN <<MemoryPart("summary", 0, summary.covers)>> ELSE <<>>)
  \o (IF Len(recentConversations) > 0
      THEN <<MemoryPart("header", 0, {})>>
           \o [index \in 1..Len(recentConversations) |->
                 MemoryPart("turn", index, {recentConversations[index]})]
      ELSE <<>>)

(* The text getMemory composes: the summary when one exists, then the      *)
(* recent turns reversed and numbered from 1.  The final trim() removes    *)
(* trailing line breaks only.                                              *)
MemoryContext(summary, recentConversations) ==
  LET oldestFirst == Reverse(recentConversations) IN
  (IF summary.present
   THEN <<MemoryPart("summary", 0, summary.covers)>> ELSE <<>>)
  \o (IF Len(recentConversations) > 0
      THEN <<MemoryPart("header", 0, {})>>
           \o [index \in 1..Len(oldestFirst) |->
                 MemoryPart("turn", index, {oldestFirst[index]})]
      ELSE <<>>)

----------------------------------------------------------------------------
(* The text of the synthesis model's answer and its way to a query object. *)
(* The back tick of a code fence is written as an apostrophe.              *)

sFenceJson == <<"'","'","'","j","s","o","n">>

sFence == <<"'","'","'">>

(* String.prototype.replace(/sub/g, "")                                    *)
RECURSIVE RemoveAll(_, _)
RemoveAll(str, sub) ==
  IF Len(str) < Len(sub) THEN str
  ELSE IF SubSeq(str, 1, Len(sub)) = sub
       THEN RemoveAll(SubSeq(str, Len(sub) + 1, Len(str)), sub)
       ELSE <<Head(str)>> \o RemoveAll(Tail(str), sub)

(* indexOf(c) and lastIndexOf(c), counted from 0; -1 when c is absent.     *)
IndexOf(str, c) ==
  IF \E i \in 1..Len(str) : str[i] = c
  THEN (CHOOSE i \in 1..Len(str) :
          str[i] = c /\ \A j \in 1..(i - 1) : str[j] # c) - 1
  ELSE -1

LastIndexOf(str, c) ==
  IF \E i \in 1..Len(str) : str[i] = c
  THEN (CHOOSE i \in 1..Len(str) :
          str[i] = c /\ \A j \in (i + 1)..Len(str) : str[j] # c) - 1
  ELSE -1

(* replace(/^[^{]*/, ""): the text from its first "{" on, nothing when it  *)
(* has none.                                                               *)
DropBeforeBrace(str) ==
  IF IndexOf(str, "{") = -1 THEN <<>>
  ELSE SubSeq(str, IndexOf(str, "{") + 1, Len(str))

(* replace(/[^}]*$/, ""): the text up to its last "}", nothing when it has *)
(* none.                                                                   *)
DropAfterBrace(str) == SubSeq(str, 1, LastIndexOf(str, "}") + 1)

(* substring(jsonStart, jsonEnd) when a "{" exists and the last "}" is     *)
(* behind it.                                                              *)
SliceObject(str) ==
  LET jsonStart == IndexOf(str, "{")
      jsonEnd == LastIndexOf(str, "}") + 1
  IN IF jsonStart # -1 /\ jsonEnd > jsonStart
     THEN SubSeq(str, jsonStart + 1, jsonEnd)
     ELSE str

(* The cleaning of response.content before JSON.parse.                     *)
CleanResponse(content) ==
  LET fenced == Trim(RemoveAll(RemoveAll(Trim(content), sFenceJson), sFence))
  IN SliceObject(DropAfterBrace(DropBeforeBrace(fenced)))

sEmptyObject == <<"{","}">>

sLimitObject == <<"{","\"","l","i","m","i","t","\"",":","3","}">>

(* { limit: 3 } and {} as query objects.                                   *)
LimitOnlyQuery ==
  Query(Undef, Holder(Undef, NoFilter), Holder(Undef, NoSortKeys), Num(3))

EmptyQuery ==
  Query(Undef, Holder(Undef, NoFilter), Holder(Undef, NoSortKeys), Undef)

(* JSON.parse for the texts of ModelContents: of the cleaned texts they    *)
(* lead to, "{}" and the limit object are JSON (white space between the    *)
(* tokens is skipped), every other one is a SyntaxError.                   *)
JSONParse(text) ==
  LET compact == RemoveAll(RemoveAll(text, <<" ">>), <<"\n">>) IN
  IF compact = sEmptyObject THEN [ok |-> TRUE, v |-> EmptyQuery]
  ELSE IF compact = sLimitObject THEN [ok |-> TRUE, v |-> LimitOnlyQuery]
  ELSE [ok |-> FALSE, v |-> NullishQuery("undef")]

(* response.content of the synthesis call.                                 *)
JsonContents ==
  {sLimitObject,
   <<"'","'","'","j","s","o","n","\n","{","\"","l","i","m","i","t","\"",":","3","}","\n","'","'","'">>,
   <<"H","e","r","e",":"," ","{","\"","l","i","m","i","t","\"",":","3","}">>,
   <<"{","\"","l","i","m","i","t","\"",":","3","}"," ","o","k">>,
   sEmptyObject,
   <<"'","'","'","\n","{","}","\n","'","'","'">>,
   <<" "," ","{"," ","}"," "," ">>}

OtherContents ==
  {<<>>,
   <<"s","o","r","r","y">>,
   <<"[","1","]">>,
   <<"{","\"","l","i","m","i","t","\"",":","3">>,
   <<"\"","l","i","m","i","t","\"",":","3","}">>,
   <<"{","a","}">>,
   <<"{","}"," ","{","}">>,
   <<"u","s","e"," ","{","x","}",":"," ","{","\"","l","i","m","i","t","\"",":","3","}">>,
   <<"'","'","'","j","s","o","n"," ","{","\"","l","i","m","i","t","\"",":","3","}"," ","'","'","'"," ","}"," ">>}

ModelContents == JsonContents \cup OtherContents

(* The synthesis call throws, or returns a response with this content.     *)
ModelOutput(threw, content) == [threw |-> threw, content |-> content]

NoModelOutput == ModelOutput(FALSE, <<>>)

----------------------------------------------------------------------------
(* Player records and the answer formatAnswer builds from them.            *)

PlayerFields ==
  {"name", "country", "format", "runs", "average", "strikeRate",
   "highestScore", "matches"}

NumericFields == {"runs", "average", "strikeRate", "matches"}

ToUpperChar(c) ==
  IF \E i \in DOMAIN LowerChars : LowerChars[i] = c
  THEN UpperChars[CHOOSE i \in DOMAIN LowerChars : LowerChars[i] = c]
  ELSE c

(* String.prototype.toUpperCase *)
ToUpperCase(str) == [i \in DOMAIN str |-> ToUpperChar(str[i])]

(* Number.prototype.toString of a non-negative integer.                    *)
RECURSIVE NumberToString(_)
NumberToString(k) ==
  IF k < 10 THEN <<Digits[k + 1]>>
  ELSE NumberToString(k \div 10) \o <<Digits[(k % 10) + 1]>>

(* v?.toFixed(2) of an integral number, undefined for a nullish v.         *)
OptionalToFixed(v) ==
  IF Nullish(v) THEN Undef ELSE Str(NumberToString(v.n) \o <<".","0","0">>)

(* v?.toUpperCase() *)
OptionalToUpperCase(v) ==
  IF Nullish(v) THEN Undef ELSE Str(ToUpperCase(v.s))

(* The text a template literal inserts for ${v}.                           *)
TemplateString(v) ==
  CASE v.t = "undef" -> <<"u","n","d","e","f","i","n","e","d">>
    [] v.t = "null" -> <<"n","u","l","l">>
    [] v.t = "num" -> NumberToString(v.n)
    [] OTHER -> v.s

(* v || fallback *)
OrElse(v, fallback) == IF Truthy(v) THEN v ELSE fallback

sNoData == <<"N","o"," ","d","a","t","a"," ","f","o","u","n","d"," ","f","o","r"," ","y","o","u","r"," ","q","u","e","r","y",".">>

(* The template literal of the single-player answer.                       *)
TextData(player) ==
  TemplateString(player.name) \o <<" ","(">> \o
  TemplateString(player.country) \o <<")"," ","-"," ","F","o","r","m","a","t",":"," ">> \o
  TemplateString(OptionalToUpperCase(player.format)) \o <<","," ","R","u","n","s",":"," ">> \o
  TemplateString(player.runs) \o <<","," ","A","v","e","r","a","g","e",":"," ">> \o
  TemplateString(OptionalToFixed(player.average)) \o
  <<","," ","H","i","g","h","e","s","t"," ","S","c","o","r","e",":"," ">> \o
  TemplateString(player.highestScore) \o <<","," ","S","t","r","i","k","e"," ","R","a","t","e",":"," ">> \o
  TemplateString(OptionalToFixed(player.strikeRate))

(* One element of tableData; StrikeRate and HighestScore are the keys      *)
(* 'Strike Rate' and 'Highest Score'.                                      *)
TableRow(player) ==
  [Name |-> OrElse(player.name, Str(<<"U","n","k","n","o","w","n">>)),
   Country |-> OrElse(player.country, Str(<<"U","n","k","n","o","w","n">>)),
   Format |-> OrElse(OptionalToUpperCase(player.format), Str(<<"A","L","L">>)),
   Runs |-> OrElse(player.runs, Num(0)),
   Average |-> OrElse(OptionalToFixed(player.average), Str(<<"0",".","0","0">>)),
   StrikeRate |-> OrElse(OptionalToFixed(player.strikeRate), Str(<<"0",".","0","0">>)),
   HighestScore |-> OrElse(player.highestScore, Str(<<"0">>)),
   Matches |-> OrElse(player.matches, Num(0))]

(* formatAnswerFallback's table, results.slice(0, 1), in place of the map  *)
(* over all results.                                                       *)
TableDataSliced(results) ==
  [i \in 1..1 |-> TableRow(results[i])]

(* results.map(player => ({...})) *)
TableData(results) == [i \in DOMAIN results |-> TableRow(results[i])]

(* What executeQuery returns: null or a document from findOne, an array    *)
(* from find.                                                              *)
Results(kind, recs) == [kind |-> kind, recs |-> recs]

NoResults == Results("null", <<>>)

NotFormatted == [format |-> "none", data |-> <<>>, rows |-> <<>>]

(* The object formatAnswer returns for results.                            *)
FormatRecords(results) ==
  IF results.kind = "null" \/ (results.kind = "list" /\ Len(results.recs) = 0)
  THEN [format |-> "text", data |-> sNoData, rows |-> <<>>]
  ELSE IF results.kind # "list" \/ Len(results.recs) = 1
  THEN [format |-> "text", data |-> TextData(results.recs[1]), rows |-> <<>>]
  ELSE [format |-> "table", data |-> <<>>, rows |-> TableData(results.recs)]

(* Largest array of records the formatter is given.                        *)
MaxRows == 3

PlayerNames == {<<"A">>, <<"B">>}

(* A stored player with every field set.                                   *)
CompletePlayer(name) ==
  [name |-> Str(name), country |-> Str(<<"P","K">>),
   format |-> Str(<<"o","d","i">>), runs |-> Num(50), average |-> Num(45),
   strikeRate |-> Num(90), highestScore |-> Str(<<"9","9","*">>),
   matches |-> Num(10)]

(* The record with the given fields undefined.                             *)
Without(player, fields) ==
  [f \in PlayerFields |-> IF f \in fields THEN Undef ELSE player[f]]

Gaps ==
  {{}, {"runs"}, {"average"}, {"strikeRate"}, {"matches"}, NumericFields,
   PlayerFields}

Players == {Without(CompletePlayer(name), gap) : name \in PlayerNames, gap \in Gaps}

ResultInputs ==
  {NoResults}
    \cup {Results("doc", <<player>>) : player \in Players}
    \cup {Results("list", recs) : recs \in UNION {[1..n -> Players] : n \in 0..MaxRows}}

----------------------------------------------------------------------------
(* Per-request state.                                                      *)

(* getMemory before its reads, and its result '' after a failed read.      *)
NoMemory == [recent |-> <<>>, text |-> <<>>]

(* this.workflowTrace = []                                                 *)
EmptyTrace == [r \in Requests |-> <<>>]

NoAnswer == [format |-> "none", rows |-> 0]

NoResponse ==
  [kind |-> "none", success |-> FALSE, message |-> <<>>, format |-> "none",
   rows |-> 0, hasTrace |-> FALSE, trace |-> EmptyTrace]

(* failure records for the properties which awaited call of the request   *)
(* was rejected last; the code logs it and keeps no such field.            *)
Idle ==
  [pc |-> "idle", question |-> <<>>, userId |-> "default", calls |-> {},
   relevancy |-> "none", isRelevant |-> FALSE, memory |-> NoMemory,
   mongoQuery |-> NullishQuery("undef"), source |-> "none",
   safeQuery |-> NotRun, formatted |-> NoAnswer, toSummarize |-> <<>>,
   snapshotCount |-> 0, failure |-> "none", response |-> NoResponse,
   modelOutput |-> NoModelOutput, results |-> NoResults,
   answer |-> NotFormatted]

(* One WorkflowTrace entry; req identifies the request whose input it      *)
(* records.  The order of two entries of different requests in the array   *)
(* is not recorded.                                                        *)
Entry(nodeId, nodeName, usedLLM, r) ==
  [nodeId |-> nodeId, nodeName |-> nodeName, usedLLM |-> usedLLM, req |-> r]

(* The synchronous part of a request between two awaited I/O calls works   *)
(* on c = [tr, l]: the shared trace and the locals of the request.         *)
Push(c, entry) == [c EXCEPT !.tr[entry.req] = Append(@, entry)]

Call(c, name) == [c EXCEPT !.l.calls = @ \cup {name}]

(* The request has returned: its locals are gone, the response remains.    *)
Return(c, resp) ==
  [c EXCEPT !.l = [@ EXCEPT !.pc = "done", !.response = resp,
                            !.memory = NoMemory,
                            !.mongoQuery = NullishQuery("undef"),
                            !.safeQuery = NotRun, !.formatted = NoAnswer,
                            !.toSummarize = <<>>, !.snapshotCount = 0]]

IsEmptyText(parts) == \A i \in DOMAIN parts : parts[i] = ""

(* askQuestion without its try/catch: the rejection leaves the handler.    *)
UnguardedRethrow(c, errorMessage, stage) ==
  Return([c EXCEPT !.l.failure = stage],
         [NoResponse EXCEPT !.kind = "unhandled"])

(* The catch block of askQuestion.                                         *)
ControllerCatch(c, errorMessage, stage) ==
  Return([c EXCEPT !.l.failure = stage],
         [kind |-> "error", success |-> FALSE,
          message |-> <<"Error processing question: ">> \o
                      (IF IsEmptyText(errorMessage) THEN <<"Unknown error">>
                       ELSE errorMessage),
          format |-> "text", rows |-> 0, hasTrace |-> FALSE, trace |-> EmptyTrace])

(* finalResponse *)
finalResponse(c, r) ==
  LET c1 == Push(Call(c, "finalResponse"),
                 Entry("7", "Final Response", FALSE, r))
  IN Return(c1, [kind |-> "answer", success |-> TRUE, message |-> <<>>,
                 format |-> c.l.formatted.format, rows |-> c.l.formatted.rows,
                 hasTrace |-> TRUE, trace |-> c1.tr])

(* saveConversation has returned: the rest of saveMemory, then             *)
(* finalResponse.                                                          *)
AfterSave(c, r) ==
  finalResponse(Push(c, Entry("6", "Memory Saver", FALSE, r)), r)

(* saveMemory up to the awaited conversation.save().                       *)
saveMemory(c) == [Call(c, "saveMemory") EXCEPT !.l.pc = "convSave"]

(* formatAnswer for n records (a single document counts as one).           *)
formatAnswer(c, r, n) ==
  IF n = 0 THEN
    [Call(c, "formatAnswer") EXCEPT !.l.formatted = [format |-> "text", rows |-> 0]]
  ELSE
    LET answer == IF n = 1 THEN [format |-> "text", rows |-> 1]
                  ELSE [format |-> "table", rows |-> n]
    IN Push([Call(c, "formatAnswer") EXCEPT !.l.formatted = answer],
            Entry("5", "Answer Formatter", FALSE, r))

(* executeQuery running the synthesized object as it is: every key of the  *)
(* filter and the sort, and the limit without a clamp.                     *)
UnsanitizedQuery(queryObj) ==
  LET rawLimit == ToNumber(OptionalProp(queryObj, "limit"))
      dir == [key \in QueryKeys |->
                LET val == queryObj.sort.f[key] IN
                IF val.t = "undef" THEN 0
                ELSE IF val.t = "num" /\ val.n = 1 THEN 1 ELSE -1]
  IN [threw |-> FALSE,
      type |-> SanitizeType(queryObj).type,
      filter |-> queryObj.filter.f,
      sort |-> IF \E key \in QueryKeys : dir[key] # 0
               THEN [present |-> TRUE, dir |-> dir] ELSE NoSort,
      limit |-> IF rawLimit.finite THEN [present |-> TRUE, n |-> rawLimit.n]
                ELSE NoLimit]

(* The query executeQuery runs: const safeQuery = this.sanitizeQuery(queryObj) *)
SafeQuery(queryObj) == sanitizeQuery(queryObj)

(* executeQuery up to the awaited query.exec().  The model reads the       *)
(* question, the memory text and the relevancy outcome no further.         *)
executeQuery(c) ==
  LET safeQuery == SafeQuery(c.l.mongoQuery)
      c1 == [Call(c, "executeQuery") EXCEPT !.l.safeQuery = safeQuery]
  IN IF safeQuery.threw
     THEN ControllerCatch(c1, <<"Query execution failed: ", "TypeError">>, "execute")
     ELSE [c1 EXCEPT !.l.pc = "execQuery", !.l.memory = NoMemory,
                     !.l.question = <<>>, !.l.relevancy = "none",
                     !.l.failure = "none"]

(* generateQuery up to the awaited model call, or through its no-model     *)
(* branch into executeQuery.                                               *)
generateQuery(c, r) ==
  LET c1 == Call(c, "generateQuery") IN
  IF ~apiKey THEN
    executeQuery(
      Push([c1 EXCEPT !.l.mongoQuery = generateQueryFallback(c.l.question),
                      !.l.source = "nokey"],
           Entry("3", "Query Generator (No-LLM Fallback)", FALSE, r)))
  ELSE [c1 EXCEPT !.l.pc = "queryLLM"]

(* generateQuery without its try/catch: a failed call or parse leaves      *)
(* processQuestion.                                                        *)
AfterSynthesisUncaught(c, r, modelOutput) ==
  LET parsed == JSONParse(CleanResponse(modelOutput.content)) IN
  IF ~modelOutput.threw /\ parsed.ok
  THEN executeQuery(
         Push([c EXCEPT !.l.mongoQuery = parsed.v, !.l.source = "model"],
              Entry("3", "Query Generator", TRUE, r)))
  ELSE ControllerCatch(c, <<"SyntaxError">>, "synthesis")

(* generateQuery after the awaited model call: the cleaning, JSON.parse    *)
(* and the trace entry, or the catch block; then executeQuery.             *)
AfterSynthesis(c, r, modelOutput) ==
  LET parsed == JSONParse(CleanResponse(modelOutput.content)) IN
  IF ~modelOutput.threw /\ parsed.ok
  THEN executeQuery(
         Push([c EXCEPT !.l.mongoQuery = parsed.v, !.l.source = "model"],
              Entry("3", "Query Generator", TRUE, r)))
  ELSE executeQuery(
         Push([c EXCEPT !.l.mongoQuery = generateQueryFallback(c.l.question),
                        !.l.source = "fallback"],
              Entry("3", "Query Generator (Fallback)", FALSE, r)))

(* getMemory has returned memory: the rest of retrieveMemory, then         *)
(* generateQuery.                                                          *)
AfterMemory(c, r, memory) ==
  generateQuery(Push([c EXCEPT !.l.memory = memory],
                     Entry("2", "Memory Retriever", FALSE, r)), r)

(* processQuestion without the early return for an off-topic question.     *)
NoGate(c, r, isRelevant) ==
  [Call([c EXCEPT !.l.isRelevant = isRelevant], "retrieveMemory")
     EXCEPT !.l.pc = "memFind"]

(* processQuestion after checkRelevancy has returned isRelevant.           *)
AfterRelevancy(c, r, isRelevant) ==
  LET c1 == [c EXCEPT !.l.isRelevant = isRelevant] IN
  IF ~isRelevant THEN
    Return(c1, [kind |-> "rejected", success |-> FALSE,
                message |-> <<"Sorry, I can only answer cricket-related questions.">>,
                format |-> "text", rows |-> 0, hasTrace |-> TRUE, trace |-> c.tr])
  ELSE [Call(c1, "retrieveMemory") EXCEPT !.l.pc = "memFind"]

(* checkRelevancy up to the awaited model call, or through its no-model    *)
(* branch.                                                                 *)
checkRelevancy(c, r) ==
  LET c1 == Call(c, "checkRelevancy") IN
  IF ~apiKey THEN
    AfterRelevancy(
      Push([c1 EXCEPT !.l.relevancy = "heuristic"],
           Entry("1", "Relevancy Checker (Fallback)", FALSE, r)),
      r, KeywordRelevancy(c.l.question))
  ELSE [c1 EXCEPT !.l.pc = "relevancyLLM"]

----------------------------------------------------------------------------
(* The steps of a request.  JavaScript runs each one to its next awaited   *)
(* store or model call without interruption.                               *)

Ctx(r) == [tr |-> workflowTrace, l |-> proc[r]]

(* The step of request r ends in context c.                                *)
Commit(r, c) ==
  /\ workflowTrace' = c.tr
  /\ proc' = [proc EXCEPT ![r] = c.l]

StoreUnchanged == UNCHANGED <<conversations, summaries, nextId>>

(* askQuestion calls processQuestion: the trace is reset; a question       *)
(* naming babar first awaits the diagnostic find.                          *)
Begin(r) ==
  /\ proc[r].pc = "idle"
  /\ \E question \in Questions, userId \in Askers :
       LET c == [tr |-> EmptyTrace,
                 l |-> [proc[r] EXCEPT !.question = question,
                                       !.userId = userId,
                                       !.calls = {"processQuestion"}]]
       IN IF Includes(ToLowerCase(question), sBabarLower)
          THEN Commit(r, [c EXCEPT !.l.pc = "babarCheck"])
          ELSE Commit(r, checkRelevancy(c, r))
  /\ StoreUnchanged
  /\ UNCHANGED <<sanVars, apiKey>>

(* The diagnostic find returns or fails.                                   *)
BabarCheck(r) ==
  /\ proc[r].pc = "babarCheck"
  /\ \/ Commit(r, checkRelevancy(Ctx(r), r))
     \/ \E cause \in StoreErrors : Commit(r, ControllerCatch(Ctx(r), <<cause>>, "babarCheck"))
  /\ StoreUnchanged
  /\ UNCHANGED <<sanVars, apiKey>>

WellFormed(text) == Trim(ToLowerCase(text)) \in {sTrue, sFalse}

(* The relevancy model call returns some text or throws.                   *)
RelevancyLLM(r) ==
  /\ proc[r].pc = "relevancyLLM"
  /\ \/ \E text \in RelevancyTexts :
          Commit(r, AfterRelevancy(
            Push([Ctx(r) EXCEPT !.l.relevancy =
                    IF WellFormed(text) THEN "model" ELSE "malformed"],
                 Entry("1", "Relevancy Checker", TRUE, r)),
            r, ModelRelevancy(text)))
     \/ Commit(r, AfterRelevancy(
          Push([Ctx(r) EXCEPT !.l.relevancy = "error"],
               Entry("1", "Relevancy Checker (Fallback after error)", FALSE, r)),
          r, ErrorFallbackRelevancy(proc[r].question)))
  /\ StoreUnchanged
  /\ UNCHANGED <<sanVars, apiKey>>

(* getMemory: the find of the latest turns returns or fails.               *)
MemFind(r) ==
  /\ proc[r].pc = "memFind"
  /\ \/ Commit(r, [Ctx(r) EXCEPT
                     !.l.memory.recent =
                        RecentConversations(conversations[proc[r].userId]),
                     !.l.pc = "memSummary"])
     \/ Commit(r, AfterMemory([Ctx(r) EXCEPT !.l.failure = "memory"], r, NoMemory))
  /\ StoreUnchanged
  /\ UNCHANGED <<sanVars, apiKey>>

(* getMemory: the findOne of the summary returns or fails.                 *)
MemSummary(r) ==
  /\ proc[r].pc = "memSummary"
  /\ \/ Commit(r, AfterMemory(Ctx(r), r,
                    [recent |-> <<>>,
                     text |-> MemoryContext(summaries[proc[r].userId],
                                            proc[r].memory.recent)]))
     \/ Commit(r, AfterMemory([Ctx(r) EXCEPT !.l.failure = "memory"], r, NoMemory))
  /\ StoreUnchanged
  /\ UNCHANGED <<sanVars, apiKey>>

(* generateQuery calling the model again after a failed attempt.           *)
QueryLLMRetry(r) ==
  /\ proc[r].pc = "queryLLM"
  /\ \/ \E queryObj \in ModelQueries :
          Commit(r, executeQuery(
            Push([Ctx(r) EXCEPT !.l.mongoQuery = queryObj, !.l.source = "model"],
                 Entry("3", "Query Generator", TRUE, r))))
     \/ Commit(r, Call(Ctx(r), "retry"))
  /\ StoreUnchanged
  /\ UNCHANGED <<sanVars, apiKey>>

(* The synthesis model call returns text that parses to a query object,    *)
(* or it throws or returns text that does not parse.                       *)
QueryLLM(r) ==
  /\ proc[r].pc = "queryLLM"
  /\ \/ \E queryObj \in ModelQueries :
          Commit(r, executeQuery(
            Push([Ctx(r) EXCEPT !.l.mongoQuery = queryObj, !.l.source = "model"],
                 Entry("3", "Query Generator", TRUE, r))))
     \/ Commit(r, executeQuery(
          Push([Ctx(r) EXCEPT
                  !.l.mongoQuery = generateQueryFallback(proc[r].question),
                  !.l.source = "fallback"],
               Entry("3", "Query Generator (Fallback)", FALSE, r))))
  /\ StoreUnchanged
  /\ UNCHANGED <<sanVars, apiKey>>

(* How many records a query may return: one document at most for findOne,  *)
(* no more than the limit handed to the store for find.                    *)
ResultSizes(safeQuery) ==
  IF safeQuery.type = "findOne" THEN 0..1
  ELSE {n \in 0..MaxRecords :
          (safeQuery.limit.present /\ safeQuery.limit.n # 0) => n <= safeQuery.limit.n}

(* The player query returns or fails; formatAnswer and the start of        *)
(* saveMemory follow.                                                      *)
ExecQuery(r) ==
  /\ proc[r].pc = "execQuery"
  /\ \/ \E n \in ResultSizes(proc[r].safeQuery) :
          LET c == IF proc[r].safeQuery.type = "findOne" THEN Ctx(r)
                   ELSE Push(Ctx(r), Entry("4", "Query Executor", FALSE, r))
              c1 == [c EXCEPT !.l.mongoQuery = NullishQuery("undef"),
                              !.l.safeQuery = NotRun, !.l.source = "none"]
          IN Commit(r, saveMemory(formatAnswer(c1, r, n)))
     \/ \E cause \in StoreErrors :
          Commit(r, ControllerCatch(Ctx(r), <<"Query execution failed: ", cause>>,
                                    "execute"))
  /\ StoreUnchanged
  /\ UNCHANGED <<sanVars, apiKey>>

(* saveConversation: conversation.save() stores the turn or fails.         *)
ConvSave(r) ==
  /\ proc[r].pc = "convSave"
  /\ \/ /\ conversations' =
             [conversations EXCEPT ![proc[r].userId] = Append(@, nextId)]
        /\ nextId' = nextId + 1
        /\ Commit(r, [Ctx(r) EXCEPT !.l.pc = "convCount"])
     \/ /\ Commit(r, AfterSave([Ctx(r) EXCEPT !.l.failure = "save"], r))
        /\ UNCHANGED <<conversations, nextId>>
  /\ UNCHANGED <<sanVars, apiKey, summaries>>

(* summarizeAndCleanup without its first line, if (!this.llm) return.      *)
ConvCountNoModelCheck(r) ==
  /\ proc[r].pc = "convCount"
  /\ \/ IF Len(conversations[proc[r].userId]) > SummarizeThreshold
        THEN Commit(r, [Call(Ctx(r), "summarizeAndCleanup") EXCEPT !.l.pc = "sumFind"])
        ELSE Commit(r, AfterSave(Ctx(r), r))
     \/ Commit(r, AfterSave([Ctx(r) EXCEPT !.l.failure = "save"], r))
  /\ StoreUnchanged
  /\ UNCHANGED <<sanVars, apiKey>>

(* saveConversation: countDocuments returns or fails; above the threshold  *)
(* summarizeAndCleanup starts, and returns at once without a model.        *)
ConvCount(r) ==
  /\ proc[r].pc = "convCount"
  /\ \/ IF Len(conversations[proc[r].userId]) > SummarizeThreshold /\ apiKey
        THEN Commit(r, [Call(Ctx(r), "summarizeAndCleanup") EXCEPT !.l.pc = "sumFind"])
        ELSE Commit(r, AfterSave(Ctx(r), r))
     \/ Commit(r, AfterSave([Ctx(r) EXCEPT !.l.failure = "save"], r))
  /\ StoreUnchanged
  /\ UNCHANGED <<sanVars, apiKey>>

(* summarizeAndCleanup summarizing every turn it found.                    *)
SummarizeAll(all) == all

(* const toSummarize = conversations.slice(0, -5)                          *)
ToSummarize(all) == SubSeq(all, 1, Len(all) - KeepRecent)

(* summarizeAndCleanup: the find of all turns returns or fails.            *)
SumFind(r) ==
  /\ proc[r].pc = "sumFind"
  /\ \/ LET all == conversations[proc[r].userId] IN
        IF Len(all) <= MinToSummarize
        THEN Commit(r, AfterSave(Ctx(r), r))
        ELSE Commit(r, [Ctx(r) EXCEPT
                          !.l.toSummarize = ToSummarize(all),
                          !.l.snapshotCount = Len(all),
                          !.l.pc = "sumLLM"])
     \/ Commit(r, AfterSave([Ctx(r) EXCEPT !.l.failure = "compactStore"], r))
  /\ StoreUnchanged
  /\ UNCHANGED <<sanVars, apiKey>>

(* The summarization model call with no try/catch around it in            *)
(* summarizeAndCleanup and saveConversation: the rejection reaches the     *)
(* controller.                                                             *)
SumLLMUncaught(r) ==
  /\ proc[r].pc = "sumLLM"
  /\ \/ Commit(r, [Ctx(r) EXCEPT !.l.pc = "sumUpsert"])
     \/ Commit(r, ControllerCatch(Ctx(r), <<"Summarization failed">>,
                                  "compactModel"))
  /\ StoreUnchanged
  /\ UNCHANGED <<sanVars, apiKey>>

(* summarizeAndCleanup: the summarization model call returns or throws.    *)
SumLLM(r) ==
  /\ proc[r].pc = "sumLLM"
  /\ \/ Commit(r, [Ctx(r) EXCEPT !.l.pc = "sumUpsert"])
     \/ Commit(r, AfterSave([Ctx(r) EXCEPT !.l.failure = "compactModel"], r))
  /\ StoreUnchanged
  /\ UNCHANGED <<sanVars, apiKey>>

(* summarizeAndCleanup: findOneAndUpdate with upsert succeeds or fails.    *)
SumUpsert(r) ==
  /\ proc[r].pc = "sumUpsert"
  /\ \/ /\ summaries' =
             [summaries EXCEPT ![proc[r].userId] =
                [present |-> TRUE,
                 conversationCount |-> proc[r].snapshotCount,
                 covers |-> {proc[r].toSummarize[i] : i \in DOMAIN proc[r].toSummarize}]]
        /\ Commit(r, [Ctx(r) EXCEPT !.l.pc = "sumDelete"])
     \/ /\ Commit(r, AfterSave([Ctx(r) EXCEPT !.l.failure = "compactStore"], r))
        /\ UNCHANGED summaries
  /\ UNCHANGED <<sanVars, apiKey, conversations, nextId>>

(* summarizeAndCleanup: deleteMany of the summarized turns succeeds or     *)
(* fails.                                                                  *)
SumDelete(r) ==
  /\ proc[r].pc = "sumDelete"
  /\ \/ /\ LET gone == {proc[r].toSummarize[i] : i \in DOMAIN proc[r].toSummarize}
               Kept(id) == id \notin gone
           IN conversations' =
                [conversations EXCEPT ![proc[r].userId] = SelectSeq(@, Kept)]
        /\ Commit(r, AfterSave(Ctx(r), r))
     \/ /\ Commit(r, AfterSave([Ctx(r) EXCEPT !.l.failure = "compactStore"], r))
        /\ UNCHANGED conversations
  /\ UNCHANGED <<sanVars, apiKey, summaries, nextId>>

(* getConversationHistory returns at most this many turns by default.      *)
HistoryLimit == 50

(* The reads of the memory endpoints, over a store no write interrupts.    *)
getMemory(turnStore, summaryStore, userId) ==
  MemoryContext(summaryStore[userId], RecentConversations(turnStore[userId]))

getConversationHistory(turnStore, userId) ==
  SubSeq(Reverse(turnStore[userId]), 1, Min(HistoryLimit, Len(turnStore[userId])))

getSummary(summaryStore, userId) == summaryStore[userId]

(* The clear endpoint: the controller calls memoryService.clearMemory and  *)
(* awaits its deleteMany of the user's turns.                              *)
ClearMemory(r) ==
  /\ proc[r].pc = "idle"
  /\ \E userId \in Users :
       Commit(r, [Call(Ctx(r), "clearMemory") EXCEPT !.l.userId = userId,
                                                    !.l.pc = "clearTurns"])
  /\ StoreUnchanged
  /\ UNCHANGED <<sanVars, apiKey>>

(* The controller's answer once clearMemory has returned; clearMemory      *)
(* catches and logs a failed delete, so the answer does not depend on it.  *)
Cleared(c) ==
  Return(c, [kind |-> "cleared", success |-> TRUE,
             message |-> <<"Memory cleared successfully">>, format |-> "none",
             rows |-> 0, hasTrace |-> FALSE, trace |-> EmptyTrace])

(* The store after conversationModel.deleteMany({ userId }).               *)
WithoutTurns(userId) == [conversations EXCEPT ![userId] = <<>>]

(* summaryModel.deleteOne({ userId }) deleting nothing.                    *)
SummaryKept(userId) == summaries

(* The store after summaryModel.deleteOne({ userId }).                     *)
WithoutSummary(userId) == [summaries EXCEPT ![userId] = NoSummary]

(* clearMemory: deleteMany of the turns succeeds or fails.                 *)
ClearTurns(r) ==
  /\ proc[r].pc = "clearTurns"
  /\ \/ /\ conversations' = WithoutTurns(proc[r].userId)
        /\ Commit(r, [Ctx(r) EXCEPT !.l.pc = "clearSummary"])
     \/ /\ Commit(r, Cleared([Ctx(r) EXCEPT !.l.failure = "clear"]))
        /\ UNCHANGED conversations
  /\ UNCHANGED <<sanVars, apiKey, summaries, nextId>>

(* clearMemory: deleteOne of the summary succeeds or fails.                *)
ClearSummary(r) ==
  /\ proc[r].pc = "clearSummary"
  /\ \/ /\ summaries' = WithoutSummary(proc[r].userId)
        /\ Commit(r, Cleared(Ctx(r)))
     \/ /\ Commit(r, Cleared([Ctx(r) EXCEPT !.l.failure = "clear"]))
        /\ UNCHANGED summaries
  /\ UNCHANGED <<sanVars, apiKey, conversations, nextId>>

----------------------------------------------------------------------------
(* The service after construction, with the memory of earlier sessions.    *)

(* The turn ids a user has stored after that many earlier saves.           *)
EarlierTurns(offset, count) == [i \in 1..count |-> offset + i]

(* The id of the first turn saved after construction.                      *)
FirstNewId == 2 * SummarizeThreshold + 1

Init ==
  /\ sanIn = NullishQuery("undef")
  /\ sanOut = NotRun
  /\ sanDone = FALSE
  /\ apiKey \in BOOLEAN
  /\ workflowTrace = EmptyTrace
  /\ conversations =
       [u \in Users |->
          IF u = "default" THEN EarlierTurns(0, SummarizeThreshold - 1)
          ELSE EarlierTurns(SummarizeThreshold, SummarizeThreshold)]
  /\ summaries = [u \in Users |-> NoSummary]
  /\ nextId = FirstNewId
  /\ proc = [r \in Requests |-> Idle]

Next ==
  \E r \in Requests :
    \/ Begin(r)
    \/ BabarCheck(r)
    \/ RelevancyLLM(r)
    \/ MemFind(r)
    \/ MemSummary(r)
    \/ QueryLLM(r)
    \/ ExecQuery(r)
    \/ ConvSave(r)
    \/ ConvCount(r)
    \/ SumFind(r)
    \/ SumLLM(r)
    \/ SumUpsert(r)
    \/ SumDelete(r)

Spec == Init /\ [][Next]_vars

----------------------------------------------------------------------------
(* One request in flight with a model configured, for progress.  An       *)
(* awaited store call returns or fails in the end; no call of the code     *)
(* bounds the wait for the model, so a model call may stay pending for     *)
(* ever.                                                                   *)

LiveInit ==
  /\ sanIn = NullishQuery("undef")
  /\ sanOut = NotRun
  /\ sanDone = FALSE
  /\ apiKey = TRUE
  /\ workflowTrace = EmptyTrace
  /\ conversations =
       [u \in Users |->
          IF u = "default" THEN EarlierTurns(0, SummarizeThreshold)
          ELSE EarlierTurns(SummarizeThreshold, SummarizeThreshold)]
  /\ summaries = [u \in Users |-> NoSummary]
  /\ nextId = FirstNewId
  /\ proc = [r \in Requests |-> Idle]

(* An awaited store call of request r settles.                             *)
StoreSettles(r) ==
  \/ BabarCheck(r)
  \/ MemFind(r)
  \/ MemSummary(r)
  \/ ExecQuery(r)
  \/ ConvSave(r)
  \/ ConvCount(r)
  \/ SumFind(r)
  \/ SumUpsert(r)
  \/ SumDelete(r)

(* An awaited model call of request r settles.                             *)
ModelSettles(r) ==
  \/ RelevancyLLM(r)
  \/ QueryLLM(r)
  \/ SumLLM(r)

LiveNext == Begin(1) \/ StoreSettles(1) \/ ModelSettles(1)

(* Node runs the continuation of a store call that has settled, and the    *)
(* store answers or rejects every call in the end.                         *)
LiveSpec == LiveInit /\ [][LiveNext]_vars /\ WF_vars(StoreSettles(1))

----------------------------------------------------------------------------
(* The conversation memory: questions about the leading scorers and        *)
(* requests to clear the memory, over a store that holds turns of two      *)
(* users and summaries of earlier compactions.                             *)

(* The turns a user keeps right after a compaction and seven more saves.   *)
TurnsAfterCompaction == KeepRecent + 7

MemInit ==
  /\ sanIn = NullishQuery("undef")
  /\ sanOut = NotRun
  /\ sanDone = FALSE
  /\ apiKey \in BOOLEAN
  /\ workflowTrace = EmptyTrace
  /\ \E compacted \in BOOLEAN :
       /\ conversations =
            [u \in Users |->
               IF u = "default"
               THEN IF compacted
                    THEN EarlierTurns(SummarizeThreshold - TurnsAfterCompaction,
                                      TurnsAfterCompaction)
                    ELSE EarlierTurns(0, SummarizeThreshold)
               ELSE EarlierTurns(SummarizeThreshold, SummarizeThreshold)]
       /\ summaries =
            [u \in Users |->
               IF u = "default" /\ ~compacted THEN NoSummary
               ELSE [present |-> TRUE,
                     conversationCount |-> SummarizeThreshold + 1,
                     covers |-> {0}]]
  /\ nextId = FirstNewId
  /\ proc = [r \in Requests |-> Idle]

(* askQuestion with the question "top scorers".                            *)
AskTopScorers(r) ==
  /\ proc[r].pc = "idle"
  /\ \E userId \in Askers :
       Commit(r, checkRelevancy(
                   [tr |-> EmptyTrace,
                    l |-> [proc[r] EXCEPT !.question = qTopScorers,
                                          !.userId = userId,
                                          !.calls = {"processQuestion"}]], r))
  /\ StoreUnchanged
  /\ UNCHANGED <<sanVars, apiKey>>

MemNext ==
  \E r \in Requests :
    \/ AskTopScorers(r)
    \/ RelevancyLLM(r)
    \/ MemFind(r)
    \/ MemSummary(r)
    \/ QueryLLM(r)
    \/ ExecQuery(r)
    \/ ConvSave(r)
    \/ ConvCount(r)
    \/ SumFind(r)
    \/ SumLLM(r)
    \/ SumUpsert(r)
    \/ SumDelete(r)
    \/ ClearMemory(r)
    \/ ClearTurns(r)
    \/ ClearSummary(r)

MemSpec == MemInit /\ [][MemNext]_vars

----------------------------------------------------------------------------
(* The sanitizer applied to one untrusted input.                           *)

(* Every part of the query is varied over its whole set against a few      *)
(* fixed values of the other parts.                                        *)
SanInput(q) ==
  \/ q \in {NullishQuery("null"), NullishQuery("undef")}
  \/ \E ks \in KeyChoices(MaxFilterKeys) :
       \E vs \in [1..MaxFilterKeys -> 1..Len(NameValues)] :
         /\ FilterFits(ks, vs)
         /\ \E lim \in {Undef, Num(1000)} :
              q = Query(Str(sFind), Holder(EmptyObj, FilterOf(ks, vs)),
                        runsAscending, lim)
  \/ \E ks \in KeyChoices(MaxSortKeys) :
       \E vs \in [1..MaxSortKeys -> 1..Len(SortDirections)] :
         /\ SortFits(ks, vs)
         /\ \E ty \in TypeInputs, lim \in LimitInputs :
              q = Query(ty, whereFilter, Holder(EmptyObj, SortOf(ks, vs)), lim)
  \/ \E leaf \in NonObjectLeaves, ty \in {Undef, Str(sFindOne)} :
       \E lim \in {Undef, Num(0)} :
         \/ q = Query(ty, Holder(leaf, NoFilter), runsAscending, lim)
         \/ q = Query(ty, whereFilter, Holder(leaf, NoSortKeys), lim)

SanInit ==
  /\ SanInput(sanIn)
  /\ sanOut = NotRun
  /\ sanDone = FALSE
  /\ apiKey = FALSE
  /\ workflowTrace = EmptyTrace
  /\ conversations = [u \in Users |-> <<>>]
  /\ summaries = [u \in Users |-> NoSummary]
  /\ nextId = 1
  /\ proc = [r \in Requests |-> Idle]

Sanitize ==
  /\ ~sanDone
  /\ sanOut' = sanitizeQuery(sanIn)
  /\ sanDone' = TRUE
  /\ UNCHANGED <<sanIn, pipeVars>>

SanNext == Sanitize

SanSpec == SanInit /\ [][SanNext]_vars

----------------------------------------------------------------------------
(* The fallback synthesizer applied to one question, and the sanitizer     *)
(* applied to its result as executeQuery does.                             *)

PlayerWords ==
  {<<>>, <<"B","a","b","a","r">>, <<"k","o","h","l","i">>,
   <<"V","i","r","a","t">>, <<"R","o","o","t">>}

FormatWords ==
  {<<>>, <<"T","2","0">>, <<"o","d","i">>, <<"T","e","s","t">>,
   <<"t","-","2","0">>}

LeadWords == {<<>>, <<"m","o","s","t"," ","r","u","n","s"," ">>}

(* Questions made of a lead, a player word and a format word in either     *)
(* order.                                                                  *)
FallbackQuestions ==
  {lead \o first \o <<" ">> \o second :
     lead \in LeadWords,
     first \in PlayerWords \cup FormatWords,
     second \in PlayerWords \cup FormatWords}

FbInit ==
  /\ sanIn = NullishQuery("undef")
  /\ sanOut = NotRun
  /\ sanDone = FALSE
  /\ apiKey = FALSE
  /\ workflowTrace = EmptyTrace
  /\ conversations = [u \in Users |-> <<>>]
  /\ summaries = [u \in Users |-> NoSummary]
  /\ nextId = 1
  /\ \E question \in FallbackQuestions :
       proc = [r \in Requests |->
                 IF r = 1 THEN [Idle EXCEPT !.question = question] ELSE Idle]

(* generateQueryFallback(question) *)
FbSynthesize ==
  /\ proc[1].source = "none"
  /\ proc' = [proc EXCEPT
                ![1].mongoQuery = generateQueryFallback(proc[1].question),
                ![1].source = "fallback"]
  /\ UNCHANGED <<sanVars, apiKey, workflowTrace, conversations, summaries, nextId>>

(* sanitizeQuery of the synthesized query.                                 *)
FbSanitize ==
  /\ proc[1].source = "fallback"
  /\ ~sanDone
  /\ sanIn' = proc[1].mongoQuery
  /\ sanOut' = sanitizeQuery(proc[1].mongoQuery)
  /\ sanDone' = TRUE
  /\ UNCHANGED pipeVars

FbNext == FbSynthesize \/ FbSanitize

FbSpec == FbInit /\ [][FbNext]_vars

----------------------------------------------------------------------------
(* generateQuery over the answers of the synthesis model: one accepted     *)
(* question whose memory read is pending.                                  *)

GenInit ==
  /\ sanIn = NullishQuery("undef")
  /\ sanOut = NotRun
  /\ sanDone = FALSE
  /\ apiKey \in BOOLEAN
  /\ \E question \in Questions \ {qWeather} :
     \E threw \in BOOLEAN, content \in ModelContents :
       /\ threw => content = <<>>
       /\ LET c == AfterRelevancy(
                     Push([tr |-> EmptyTrace,
                           l |-> [Idle EXCEPT
                                    !.question = question,
                                    !.calls = {"processQuestion", "checkRelevancy"},
                                    !.relevancy = IF apiKey THEN "model" ELSE "heuristic",
                                    !.modelOutput = ModelOutput(threw, content)]],
                          Entry("1", IF apiKey THEN "Relevancy Checker"
                                     ELSE "Relevancy Checker (Fallback)", apiKey, 1)),
                     1, TRUE)
          IN /\ workflowTrace = c.tr
             /\ proc = [r \in Requests |-> IF r = 1 THEN c.l ELSE Idle]
  /\ conversations = [u \in Users |-> <<>>]
  /\ summaries = [u \in Users |-> NoSummary]
  /\ nextId = 1

(* The awaited chain.invoke of generateQuery settles with the output the   *)
(* model has for the request.                                              *)
GenSettle(r) ==
  /\ proc[r].pc = "queryLLM"
  /\ Commit(r, AfterSynthesis(Ctx(r), r, proc[r].modelOutput))
  /\ StoreUnchanged
  /\ UNCHANGED <<sanVars, apiKey>>

GenNext == MemFind(1) \/ MemSummary(1) \/ GenSettle(1)

GenSpec == GenInit /\ [][GenNext]_vars

----------------------------------------------------------------------------
(* formatAnswer over the records the player store returns: one request     *)
(* whose query.exec() is pending.                                          *)

FmtInit ==
  /\ sanIn = NullishQuery("undef")
  /\ sanOut = NotRun
  /\ sanDone = FALSE
  /\ apiKey = TRUE
  /\ \E results \in ResultInputs :
       LET type == IF results.kind = "list" THEN sFind ELSE sFindOne
           asked == [tr |-> EmptyTrace,
                     l |-> [Idle EXCEPT
                              !.question = qTopScorers,
                              !.calls = {"processQuestion", "checkRelevancy",
                                         "retrieveMemory", "generateQuery"},
                              !.isRelevant = TRUE,
                              !.mongoQuery =
                                 Query(Str(type), Holder(EmptyObj, NoFilter),
                                       Holder(Undef, NoSortKeys), Undef),
                              !.source = "model",
                              !.results = results]]
           c == executeQuery(
                  Push(Push(Push(asked, Entry("1", "Relevancy Checker", TRUE, 1)),
                            Entry("2", "Memory Retriever", FALSE, 1)),
                       Entry("3", "Query Generator", TRUE, 1)))
       IN /\ workflowTrace = c.tr
          /\ proc = [r \in Requests |-> IF r = 1 THEN c.l ELSE Idle]
  /\ conversations = [u \in Users |-> <<>>]
  /\ summaries = [u \in Users |-> NoSummary]
  /\ nextId = 1

(* query.exec() returns the records; formatAnswer and the start of         *)
(* saveMemory follow.                                                      *)
FmtExec(r) ==
  /\ proc[r].pc = "execQuery"
  /\ LET results == proc[r].results
         c == IF proc[r].safeQuery.type = "findOne" THEN Ctx(r)
              ELSE Push(Ctx(r), Entry("4", "Query Executor", FALSE, r))
         c1 == [c EXCEPT !.l.mongoQuery = NullishQuery("undef"),
                         !.l.safeQuery = NotRun, !.l.source = "none",
                         !.l.answer = FormatRecords(results)]
     IN Commit(r, saveMemory(formatAnswer(c1, r, Len(results.recs))))
  /\ StoreUnchanged
  /\ UNCHANGED <<sanVars, apiKey>>

FmtNext == FmtExec(1)

FmtSpec == FmtInit /\ [][FmtNext]_vars

----------------------------------------------------------------------------
(* Properties of sanitizeQuery.                                            *)

FilterKeysOf(q) == {k \in QueryKeys : q.filter[k].t # "undef"}

SortKeysOf(q) == {k \in QueryKeys : q.sort.present /\ q.sort.dir[k] # 0}

LimitInRange(q) ==
  q.limit.present => (LimitFloor <= q.limit.n /\ q.limit.n <= LimitCeiling)

AllowlistExample == Query(Undef, whereFilter, runsAscending, Num(1000))

(* C1: sanitizeQuery returns for every input without throwing; the filter  *)
(* keys and the sort keys of its result are members of the field           *)
(* allowlist, and the limit is absent or a number in [1, 50].  For filter  *)
(* {$where: ...}, sort {runs: 1}, limit 1000 the result is filter {},      *)
(* sort {runs: 1}, limit 50.                                               *)
C1_SanitizerTotal ==
  sanDone =>
    /\ ~sanOut.threw
    /\ sanOut.type \in {"find", "findOne"}
    /\ FilterKeysOf(sanOut) \subseteq safeFilterFields
    /\ SortKeysOf(sanOut) \subseteq safeFilterFields
    /\ \A k \in SortKeysOf(sanOut) : sanOut.sort.dir[k] \in {1, -1}
    /\ LimitInRange(sanOut)
    /\ (sanIn = AllowlistExample =>
          /\ sanOut.filter = NoFilter
          /\ sanOut.sort.present
          /\ SortKeysOf(sanOut) = {"runs"}
          /\ sanOut.sort.dir["runs"] = 1
          /\ sanOut.limit = [present |-> TRUE, n |-> 50])

(* The allowlist example has been sanitized to filter {}, limit 50.        *)
C1_Witness ==
  /\ sanDone
  /\ sanIn = AllowlistExample
  /\ sanOut.filter = NoFilter
  /\ sanOut.limit = [present |-> TRUE, n |-> 50]

(* C4: the format key of the sanitized filter is absent or one of "test",  *)
(* "odi", "t20"; any other input value, a string outside the three or a    *)
(* non-string, drops the key.                                              *)
C4_FormatNormalized ==
  sanDone =>
    \/ sanOut.filter["format"].t = "undef"
    \/ /\ sanOut.filter["format"].t = "str"
       /\ sanOut.filter["format"].s \in {sTest, sOdi, sT20}

IsRegexObject(v) ==
  /\ v.t = "obj"
  /\ v.o["$regex"].t = "str"
  /\ \A k \in OperatorKeys \ {"$regex", "$options"} : v.o[k].t = "undef"
  /\ v.o["$options"].t \in {"undef", "str"}
  /\ \A i \in DOMAIN v.o["$options"].s : v.o["$options"].s[i] \in RegexFlagChars

IsPrimitive(v) == v.t \in {"null", "num", "str", "bool"}

(* C5: a name or country value of the sanitized filter is a primitive or   *)
(* an object with a string $regex, no key besides $regex and $options, and *)
(* $options made of the characters i, m, s, x only; an input object        *)
(* without a string $regex is dropped.                                     *)
C5_RegexObjectOnly ==
  sanDone =>
    \A key \in {"name", "country"} :
      /\ \/ sanOut.filter[key].t = "undef"
         \/ IsPrimitive(sanOut.filter[key])
         \/ IsRegexObject(sanOut.filter[key])
      /\ LET val == RawFilter(sanIn).v.f[key] IN
         (val.t \in {"obj", "arr"} /\ val.o["$regex"].t # "str")
           => sanOut.filter[key].t = "undef"

(* C29: sanitizing the result of sanitizeQuery again gives the same type, *)
(* filter, sort and limit.                                                 *)
C29_SanitizeIdempotent ==
  sanDone =>
    LET again == sanitizeQuery(AsQueryObject(sanOut)) IN
    /\ ~again.threw
    /\ again.type = sanOut.type
    /\ again.filter = sanOut.filter
    /\ again.sort = sanOut.sort
    /\ again.limit = sanOut.limit

(* A query that the sanitizer changed in its sort and its limit has been   *)
(* sanitized: the direction "asc" became -1 and the limit 1000 became 50.  *)
C29_Witness ==
  /\ sanDone
  /\ sanIn.sort.f["runs"] = Str(<<"a","s","c">>)
  /\ sanIn.limit = Num(1000)
  /\ sanOut.sort.dir["runs"] = -1
  /\ sanOut.limit = [present |-> TRUE, n |-> LimitCeiling]
  /\ AsQueryObject(sanOut) # sanIn

(* The input carries an object in the sort position.                       *)
SortGiven(q) == q.kind = "obj" /\ Truthy(q.sort) /\ TypeofObject(q.sort)

(* The keys the input sort holds.                                          *)
InputSortKeys(q) == {k \in QueryKeys : q.sort.f[k].t # "undef"}

(* C23: the sanitized sort holds exactly the input sort keys that belong  *)
(* to the field allowlist (name, country, format, runs, average,           *)
(* strikeRate, matches, innings, centuries, fifties, ducks); a kept        *)
(* direction is 1 when the input value is the number 1 and -1 otherwise;   *)
(* a sort left without keys is absent.                                     *)
C23_SortAllowlist ==
  (sanDone /\ SortGiven(sanIn)) =>
    /\ SortKeysOf(sanOut) = InputSortKeys(sanIn) \cap safeFilterFields
    /\ \A k \in SortKeysOf(sanOut) :
         sanOut.sort.dir[k] =
           (IF sanIn.sort.f[k].t = "num" /\ sanIn.sort.f[k].n = 1 THEN 1 ELSE -1)
    /\ SortKeysOf(sanOut) = {} => ~sanOut.sort.present

----------------------------------------------------------------------------
(* Properties of the request pipeline.                                     *)

Done(r) == proc[r].pc = "done"

RejectMessage == <<"Sorry, I can only answer cricket-related questions.">>

(* C2: while the player query of a request is awaited, the type, filter,   *)
(* sort and limit handed to the store are sanitizeQuery of the synthesized *)
(* query, from the model or from generateQueryFallback alike: only         *)
(* allowlisted filter and sort keys, and a limit that is absent or in      *)
(* [1, 50].                                                                *)
C2_StoreGetsSanitized ==
  \A r \in Requests :
    proc[r].pc = "execQuery" =>
      /\ proc[r].source \in {"model", "fallback", "nokey"}
      /\ proc[r].safeQuery = sanitizeQuery(proc[r].mongoQuery)
      /\ FilterKeysOf(proc[r].safeQuery) \subseteq safeFilterFields
      /\ SortKeysOf(proc[r].safeQuery) \subseteq safeSortFields
      /\ LimitInRange(proc[r].safeQuery)

(* A model query with a $where filter and limit 1000 is awaited at the     *)
(* store with an empty filter and limit 50.                                *)
C2_Witness ==
  \E r \in Requests :
    /\ proc[r].pc = "execQuery"
    /\ proc[r].source = "model"
    /\ proc[r].mongoQuery.filter.f["$where"].t # "undef"
    /\ proc[r].safeQuery.filter = NoFilter
    /\ proc[r].safeQuery.limit = [present |-> TRUE, n |-> LimitCeiling]

(* C3: every find-many query awaited at the store carries a limit between  *)
(* 1 and 50, whatever object the model returned.                           *)
C3_FindBounded ==
  \A r \in Requests :
    (proc[r].pc = "execQuery" /\ proc[r].safeQuery.type = "find") =>
      /\ proc[r].safeQuery.limit.present
      /\ LimitFloor <= proc[r].safeQuery.limit.n
      /\ proc[r].safeQuery.limit.n <= LimitCeiling

(* C6: every request that has returned gave the caller a structured        *)
(* response (an answer, a rejection or the error response of the           *)
(* controller) with a boolean success, and with a non-empty message        *)
(* whenever success is false; no exception leaves askQuestion.             *)
C6_StructuredResponse ==
  \A r \in Requests :
    Done(r) =>
      /\ proc[r].response.kind \in {"answer", "rejected", "error"}
      /\ proc[r].response.success \in BOOLEAN
      /\ (~proc[r].response.success => ~IsEmptyText(proc[r].response.message))

(* A store failure without an error message has been answered with the     *)
(* error response, and another request with a rejection.                   *)
C6_Witness ==
  \E r1, r2 \in Requests :
    /\ Done(r1)
    /\ proc[r1].response.kind = "error"
    /\ proc[r1].response.message = <<"Error processing question: ", "Unknown error">>
    /\ Done(r2)
    /\ proc[r2].response.kind = "rejected"

(* C7: after a failed store call in executeQuery the response has          *)
(* success=false, a message naming the cause, and the trace entries of     *)
(* the relevancy check, the memory retrieval and the synthesis.            *)
C7_StoreFailureKeepsTrace ==
  \A r \in Requests :
    (Done(r) /\ proc[r].failure = "execute") =>
      /\ ~proc[r].response.success
      /\ ~IsEmptyText(proc[r].response.message)
      /\ proc[r].response.hasTrace
      /\ \A nodeId \in {"1", "2", "3"} :
           \E i \in DOMAIN proc[r].response.trace[r] :
             proc[r].response.trace[r][i].nodeId = nodeId

(* C8: a model failure in the relevancy check or in the synthesis never    *)
(* ends in the error response, and after a failed or malformed relevancy   *)
(* answer the request goes on with the decision of a deterministic         *)
(* fallback.                                                               *)
C8_ModelFailureFallsBack ==
  \A r \in Requests :
    /\ (Done(r) /\ proc[r].response.kind = "error")
         => proc[r].failure \in {"babarCheck", "execute"}
    /\ proc[r].relevancy \in {"malformed", "error"}
         => proc[r].isRelevant \in {KeywordRelevancy(proc[r].question),
                                    ErrorFallbackRelevancy(proc[r].question)}

(* C9: a rejected request returns success=false with the fixed message and *)
(* a trace holding exactly its relevancy entry, and has called none of the *)
(* later stages.                                                           *)
C9_RejectTraceExact ==
  \A r \in Requests :
    (Done(r) /\ proc[r].response.kind = "rejected") =>
      /\ ~proc[r].response.success
      /\ proc[r].response.message = RejectMessage
      /\ proc[r].calls = {"processQuestion", "checkRelevancy"}
      /\ proc[r].response.hasTrace
      /\ Len(proc[r].response.trace[r]) = 1
      /\ proc[r].response.trace[r][1].nodeId = "1"
      /\ \A other \in Requests \ {r} : proc[r].response.trace[other] = <<>>

(* C10 as stated: a rejected request has saved a turn for the user.        *)
C10_TurnOnReject ==
  \A r \in Requests :
    (Done(r) /\ proc[r].response.kind = "rejected") =>
      /\ "saveMemory" \in proc[r].calls
      /\ nextId > FirstNewId

(* C10: a turn is saved only by a request the gate has                     *)
(* accepted: saveMemory is called on every answered request and on no      *)
(* rejected one, and no more turns are stored than requests called it.     *)
C10_TurnOnlyWhenAccepted ==
  /\ \A r \in Requests :
       /\ "saveMemory" \in proc[r].calls => proc[r].isRelevant
       /\ (Done(r) /\ proc[r].response.kind = "rejected")
            => "saveMemory" \notin proc[r].calls
       /\ (Done(r) /\ proc[r].response.kind = "answer")
            => "saveMemory" \in proc[r].calls
  /\ nextId - FirstNewId
       <= Cardinality({r \in Requests : "saveMemory" \in proc[r].calls})

(* One request was rejected, another was answered, and one turn was        *)
(* stored.                                                                 *)
C10_Witness ==
  \E r1, r2 \in Requests :
    /\ Done(r1)
    /\ proc[r1].response.kind = "rejected"
    /\ Done(r2)
    /\ proc[r2].response.kind = "answer"
    /\ nextId = FirstNewId + 1

(* The node ids of the entries of request r in a trace.                    *)
OwnNodeIds(trace, r) == [i \in DOMAIN trace[r] |-> trace[r][i].nodeId]

(* The trace holds an entry some other request has pushed.                 *)
HasForeignEntry(trace, r) == \E other \in Requests \ {r} : trace[other] # <<>>

(* C13: the trace returned to a request holds no entry pushed by another   *)
(* request and holds the request's own entries from its relevancy entry    *)
(* on, under every interleaving.                                           *)
C13_TraceIsolated ==
  \A r \in Requests :
    (Done(r) /\ proc[r].response.hasTrace) =>
      /\ ~HasForeignEntry(proc[r].response.trace, r)
      /\ proc[r].response.trace[r] # <<>>
      /\ proc[r].response.trace[r][1].nodeId = "1"

(* The query the store is handed for the default rule of the fallback.     *)
TopByRuns ==
  [threw |-> FALSE, type |-> "find", filter |-> NoFilter,
   sort |-> [present |-> TRUE,
             dir |-> [key \in QueryKeys |-> IF key = "runs" THEN -1 ELSE 0]],
   limit |-> [present |-> TRUE, n |-> FallbackLimit]]

(* Without a model, "top scorers" passes the gate and is synthesized to    *)
(* the default query.                                                      *)
TopScorersSynthesis(r) ==
  /\ (~apiKey /\ proc[r].question = qTopScorers /\ Done(r))
       => proc[r].response.kind # "rejected"
  /\ (~apiKey /\ proc[r].question = qTopScorers /\ proc'[r].pc = "execQuery")
       => proc'[r].safeQuery = TopByRuns

(* The records of the default query of a no-model request have returned.   *)
TopScorersReturned(r) ==
  /\ proc[r].pc = "execQuery"
  /\ proc[r].source = "nokey"
  /\ proc[r].safeQuery = TopByRuns
  /\ proc'[r].pc = "convSave"

C18_ErrorFallbackIsHeuristic ==
  \A r \in Requests :
    proc[r].relevancy = "error" =>
      proc[r].isRelevant = KeywordRelevancy(proc[r].question)

(* C19: a successful request that ran undisturbed returns a trace with     *)
(* exactly one entry per stage, in pipeline order: relevancy, memory       *)
(* retrieval, synthesis, execution, formatting, memory save, final         *)
(* response.                                                               *)
C19_OneEntryPerStage ==
  \A r \in Requests :
    (/\ Done(r)
     /\ proc[r].response.kind = "answer"
     /\ ~HasForeignEntry(proc[r].response.trace, r)
     /\ proc[r].response.trace[r] # <<>>
     /\ proc[r].response.trace[r][1].nodeId = "1")
      => OwnNodeIds(proc[r].response.trace, r)
           = <<"1", "2", "3", "4", "5", "6", "7">>

(* A query of request r is awaited at the player store.                    *)
PlayerQueryAwaited(r) == proc[r].pc \in {"babarCheck", "execQuery"}

(* C20: a query is awaited at the player store only for a request whose    *)
(* question the gate has accepted.                                         *)
C20_NoQueryBeforeGate ==
  \A r \in Requests :
    PlayerQueryAwaited(r) =>
      /\ "checkRelevancy" \in proc[r].calls
      /\ proc[r].isRelevant

(* The step-3 entries a request has in the trace.                          *)
GeneratorEntries(trace, r) ==
  SelectSeq(trace[r], LAMBDA entry : entry.nodeId = "3")

(* C21: when the synthesis call throws or its cleaned answer is no JSON,   *)
(* generateQuery returns exactly generateQueryFallback(question) and       *)
(* appends one trace entry, marked as fallback with usedLLM false; without *)
(* an API key the same query is returned without a model call.             *)
C21_FallbackOnFailure ==
  [][\A r \in Requests :
       /\ ( /\ proc[r].pc = "queryLLM"
            /\ proc'[r] # proc[r]
            /\ \/ proc[r].modelOutput.threw
               \/ proc[r].modelOutput.content \in OtherContents )
            => /\ proc'[r].pc = "execQuery"
               /\ proc'[r].mongoQuery = generateQueryFallback(proc[r].question)
               /\ workflowTrace'[r] =
                    Append(workflowTrace[r],
                           Entry("3", "Query Generator (Fallback)", FALSE, r))
               /\ Len(GeneratorEntries(workflowTrace', r)) = 1
       /\ ( /\ ~apiKey
            /\ proc[r].pc \in {"memFind", "memSummary"}
            /\ proc'[r].pc \notin {"memFind", "memSummary"} )
            => /\ proc'[r].pc = "execQuery"
               /\ proc'[r].mongoQuery = generateQueryFallback(proc[r].question)
               /\ GeneratorEntries(workflowTrace', r) =
                    <<Entry("3", "Query Generator (No-LLM Fallback)", FALSE, r)>>]_vars

(* The model answered in prose with braces in it; the fallback query of    *)
(* the question is about to run.                                           *)
C21_Witness ==
  /\ apiKey
  /\ proc[1].pc = "execQuery"
  /\ proc[1].modelOutput.content \in OtherContents
  /\ Includes(proc[1].modelOutput.content, <<"{">>)
  /\ ~proc[1].modelOutput.threw
  /\ proc[1].mongoQuery = generateQueryFallback(proc[1].question)
  /\ GeneratorEntries(workflowTrace, 1) =
       <<Entry("3", "Query Generator (Fallback)", FALSE, 1)>>

(* C22: a request awaits the synthesis model at most once, entering the   *)
(* call from the memory stage and leaving it with its one answer or        *)
(* failure; the fallback synthesizer produces the query only in the step   *)
(* that ends a failed attempt, or with no model configured and no attempt; *)
(* the step that ends the attempt pushes one Query Generator entry, which  *)
(* says usedLLM exactly when the query is the model's.                     *)
C22_OneSynthesisAttempt ==
  [][\A r \in Requests :
       /\ (proc'[r].pc = "queryLLM" /\ proc[r].pc # "queryLLM")
            => /\ apiKey
               /\ proc[r].pc \in {"memFind", "memSummary"}
               /\ "generateQuery" \notin proc[r].calls
       /\ (proc[r].pc = "queryLLM" /\ proc'[r] # proc[r])
            => /\ proc'[r].pc # "queryLLM"
               /\ \E entry \in {Entry("3", "Query Generator", TRUE, r),
                                 Entry("3", "Query Generator (Fallback)", FALSE, r)} :
                    /\ workflowTrace'[r] = Append(workflowTrace[r], entry)
                    /\ entry.usedLLM <=> proc'[r].source = "model"
                    /\ ~entry.usedLLM
                         => /\ proc'[r].source = "fallback"
                            /\ proc'[r].mongoQuery =
                                 generateQueryFallback(proc[r].question)
       /\ (proc'[r].source = "fallback" /\ proc[r].source # "fallback")
            => proc[r].pc = "queryLLM"
       /\ (proc'[r].source = "nokey" /\ proc[r].source # "nokey")
            => ~apiKey /\ proc[r].pc # "queryLLM"]_vars

(* The one model attempt of a request has failed and the fallback query is *)
(* about to run.                                                           *)
C22_Witness ==
  \E r \in Requests :
    /\ apiKey
    /\ proc[r].pc = "execQuery"
    /\ proc[r].source = "fallback"
    /\ \E i \in 1..Len(workflowTrace[r]) :
         workflowTrace[r][i] = Entry("3", "Query Generator (Fallback)", FALSE, r)

----------------------------------------------------------------------------
(* Properties of generateQueryFallback.                                    *)

HasPlayerAlias(question) ==
  \E alias \in {sBabarLower, sKohli, sVirat} :
    Includes(ToLowerCase(question), alias)

FormatKeywordsIn(question) ==
  {keyword \in {sTest, sOdi, sT20} : Includes(ToLowerCase(question), keyword)}

(* C14: for a question whose lower-cased text holds a player alias (babar, *)
(* kohli, virat) and a format keyword (test, odi, t20), the fallback query *)
(* filters on the player name and on that format.                          *)
C14_NameAndFormat ==
  (/\ proc[1].source = "fallback"
   /\ HasPlayerAlias(proc[1].question)
   /\ FormatKeywordsIn(proc[1].question) # {})
    => /\ proc[1].mongoQuery.filter.f["name"].t # "undef"
       /\ proc[1].mongoQuery.filter.f["format"].t = "str"
       /\ proc[1].mongoQuery.filter.f["format"].s
            \in FormatKeywordsIn(proc[1].question)

(* C30: the query the fallback synthesizer returns passes the sanitizer    *)
(* unchanged in type, filter, sort and limit: a find sorted by runs         *)
(* descending with limit 5.                                                *)
C30_FallbackFixedPoint ==
  sanDone =>
    /\ sanIn = generateQueryFallback(proc[1].question)
    /\ ~sanOut.threw
    /\ AsQueryObject(sanOut) = sanIn
    /\ sanOut.type = "find"
    /\ SortKeysOf(sanOut) = {"runs"}
    /\ sanOut.sort.dir["runs"] = -1
    /\ sanOut.limit = [present |-> TRUE, n |-> FallbackLimit]

(* The query for a question naming Babar and T20 has been sanitized and    *)
(* still holds its name pattern and its format.                            *)
C30_Witness ==
  /\ sanDone
  /\ proc[1].source = "fallback"
  /\ sanOut.filter["name"] = RegexI(sBabar)
  /\ sanOut.filter["format"] = Val(Str(sT20))

----------------------------------------------------------------------------
(* Properties of the conversation memory.                                  *)

(* The turns every user but userId has stored.                             *)
TurnsOfOthers(userId) ==
  UNION {{conversations[u][j] : j \in 1..Len(conversations[u])} :
           u \in Users \ {userId}}

(* recent holds the newest turns of the stored sequence turns, at most     *)
(* RecentTurns of them, the newest first.                                  *)
NewestFirst(recent, turns) ==
  /\ Len(recent) = Min(RecentTurns, Len(turns))
  /\ \A i \in 1..Len(recent) : recent[i] = turns[Len(turns) + 1 - i]

(* text is the summary when one is stored, then the turns of recent from   *)
(* the oldest to the newest, numbered from 1.                              *)
SummaryThenOldestFirst(text, summary, recent) ==
  LET lead == IF summary.present THEN 1 ELSE 0
      head == IF Len(recent) > 0 THEN 1 ELSE 0
  IN /\ Len(text) = lead + head + Len(recent)
     /\ summary.present => text[1] = MemoryPart("summary", 0, summary.covers)
     /\ Len(recent) > 0 => text[lead + 1].kind = "header"
     /\ \A n \in 1..Len(recent) :
          text[lead + head + n] =
            MemoryPart("turn", n, {recent[Len(recent) + 1 - n]})

(* C15: getMemory reads the ten newest turns of the user and no turn of   *)
(* another user, and composes the stored summary, when there is one,       *)
(* followed by these turns from the oldest to the newest, numbered 1..N;   *)
(* a failed read of the turns or of the summary makes it return the empty  *)
(* text, and the pipeline goes on to the synthesis.                        *)
C15_MemoryComposition ==
  [][\A r \in Requests :
       LET userId == proc[r].userId IN
       /\ (proc[r].pc = "memFind" /\ proc'[r].pc = "memSummary")
            => /\ NewestFirst(proc'[r].memory.recent, conversations[userId])
               /\ \A i \in 1..Len(proc'[r].memory.recent) :
                    proc'[r].memory.recent[i] \notin TurnsOfOthers(userId)
       /\ (proc[r].pc = "memSummary" /\ proc'[r].pc = "queryLLM"
              /\ proc'[r].failure # "memory")
            => SummaryThenOldestFirst(proc'[r].memory.text, summaries[userId],
                                      proc[r].memory.recent)
       /\ (proc[r].pc \in {"memFind", "memSummary"}
              /\ proc'[r].pc \notin {"memFind", "memSummary"})
            => /\ proc'[r].pc \in {"queryLLM", "execQuery"}
               /\ (proc'[r].pc = "queryLLM" /\ proc'[r].failure = "memory")
                    => proc'[r].memory.text = <<>>]_vars

(* A request about to call the synthesis model holds the summary and ten   *)
(* numbered turns of a user who has stored more than ten.                  *)
C15_Witness ==
  \E r \in Requests :
    LET text == proc[r].memory.text
        turns == conversations[proc[r].userId]
    IN /\ proc[r].pc = "queryLLM"
       /\ proc[r].failure = "none"
       /\ Len(turns) > RecentTurns
       /\ Len(text) = RecentTurns + 2
       /\ text[1].kind = "summary"
       /\ text[3] = MemoryPart("turn", 1, {turns[Len(turns) + 1 - RecentTurns]})
       /\ text[Len(text)] = MemoryPart("turn", RecentTurns, {turns[Len(turns)]})

(* The request stores no turn for userId: it has not started, it serves    *)
(* another user, or it has returned without reaching saveMemory.           *)
StoresNoTurn(r, userId) ==
  \/ proc[r].pc = "idle"
  \/ proc[r].userId # userId
  \/ Done(r) /\ "saveMemory" \notin proc[r].calls

ClearStep(r) ==
  /\ proc[r].pc \in {"clearTurns", "clearSummary"}
  /\ proc'[r].pc # proc[r].pc

NotBeside(other, r) ==
  \/ proc[other].pc = "idle"
  \/ proc[other].userId # proc[r].userId
  \/ /\ Done(other)
     /\ workflowTrace[other] = <<>>
     /\ "clearMemory" \notin proc[other].calls

(* saveConversation of request r returns with its turn stored and none of  *)
(* its store or model calls rejected.                                      *)
SaveReturns(r) ==
  /\ proc[r].pc \in {"convCount", "sumFind", "sumLLM", "sumUpsert", "sumDelete"}
  /\ proc'[r].pc = "done"
  /\ proc'[r].failure = "none"

(* The stored turns and summary of userId when a save that found count     *)
(* turns returns: above the threshold the five newest turns remain and the *)
(* summary counts all of them, otherwise the step changes nothing.         *)
CompactionOutcome(userId, count) ==
  IF count > SummarizeThreshold
  THEN /\ Len(conversations'[userId]) = KeepRecent
       /\ conversations'[userId] =
            SubSeq(conversations[userId], count - KeepRecent + 1, count)
       /\ summaries'[userId].present
       /\ summaries'[userId].conversationCount = count
  ELSE UNCHANGED <<conversations, summaries>>

CompactionFails(r) ==
  /\ proc[r].failure = "none"
  /\ proc'[r].failure \in {"compactStore", "compactModel"}

(* C24: when a store call or the model call of summarizeAndCleanup is     *)
(* rejected, the request returns its answer all the same and the step      *)
(* deletes no turn; the turn the save appended is still stored when no     *)
(* other request ran beside it; the steps of the save up to and including  *)
(* a rejected model call change no turn and no summary.                    *)
C24_CompactionFailureContained ==
  [][\A r \in Requests :
       LET userId == proc[r].userId IN
       /\ CompactionFails(r)
            => /\ proc'[r].pc = "done"
               /\ proc'[r].response.kind = "answer"
               /\ proc'[r].response.success
               /\ conversations' = conversations
               /\ (\A other \in Requests \ {r} : NotBeside(other, r))
                    => \E i \in 1..Len(conversations'[userId]) :
                         conversations'[userId][i] = nextId - 1
       /\ (proc[r].pc \in {"convCount", "sumFind", "sumLLM"}
              /\ proc'[r].pc # proc[r].pc)
            => UNCHANGED <<conversations, summaries>>
       /\ (proc'[r].failure = "compactModel" /\ proc[r].failure = "none")
            => proc[r].pc = "sumLLM"]_vars

(* A save whose summarization model call was rejected has returned its     *)
(* answer: the 21 turns are stored and there is no summary.                *)
C24_Witness ==
  \E r \in Requests :
    /\ Done(r)
    /\ proc[r].failure = "compactModel"
    /\ proc[r].response.success
    /\ Len(conversations[proc[r].userId]) = SummarizeThreshold + 1
    /\ summaries[proc[r].userId] = NoSummary

(* The turns user "default" had stored at the start: twelve when a         *)
(* summary of an earlier compaction existed, twenty otherwise.             *)
TurnsAtStart ==
  IF summaries["default"].present THEN TurnsAfterCompaction
  ELSE SummarizeThreshold

(* No model is configured and no request has asked to clear the memory.    *)
SavesOnly ==
  ~apiKey /\ \A r \in Requests : "clearMemory" \notin proc[r].calls

(* C25: with no model configured, a step of a question changes no summary *)
(* and removes no turn; the only change of the turns is the one turn a     *)
(* save appends, so that after k saves the user has k more turns than at   *)
(* the start, also beyond 20.                                              *)
C25_NoModelNoCompaction ==
  [][~apiKey =>
       /\ \A r \in Requests :
            (proc'[r] # proc[r] /\ "clearMemory" \notin proc'[r].calls)
              => /\ summaries' = summaries
                 /\ \/ conversations' = conversations
                    \/ /\ proc[r].pc = "convSave"
                       /\ conversations' =
                            [conversations EXCEPT
                               ![proc[r].userId] = Append(@, nextId)]
       /\ SavesOnly' =>
            Len(conversations'["default"]) = TurnsAtStart' + (nextId' - FirstNewId)]_vars

(* Without a model two saves have returned for a user who had 20 turns:    *)
(* 22 turns are stored and no summary.                                     *)
C25_Witness ==
  /\ SavesOnly
  /\ \A r \in Requests : Done(r) /\ "saveMemory" \in proc[r].calls
  /\ Len(conversations["default"]) = SummarizeThreshold + 2
  /\ summaries["default"] = NoSummary

(* Every turn user "default" has ever stored: the twenty of the start and  *)
(* the ones saved since.                                                   *)
TurnsEverStored == (1..SummarizeThreshold) \cup (FirstNewId..(nextId - 1))

StoredTurns(userId) ==
  {conversations[userId][i] : i \in 1..Len(conversations[userId])}

(* Both requests saved a turn for "default", both ran summarizeAndCleanup  *)
(* with no call rejected, and both have returned.                          *)
BothCompacted ==
  \A r \in Requests :
    /\ Done(r)
    /\ proc[r].userId = "default"
    /\ "summarizeAndCleanup" \in proc[r].calls
    /\ proc[r].failure = "none"

(* C26: once two saves of one user that both ran the compaction have      *)
(* returned, every turn that is no longer stored is one of the turns the   *)
(* stored summary was computed from.                                       *)
C26_DeletedTurnsSummarized ==
  BothCompacted =>
    \A id \in TurnsEverStored :
      id \in StoredTurns("default") \/ id \in summaries["default"].covers

----------------------------------------------------------------------------
(* Properties of formatAnswer.                                             *)

(* formatAnswer of request r has returned.                                 *)
Formatted(r) == proc[r].answer # NotFormatted

(* C27: formatAnswer answers "No data found for your query." as text for   *)
(* no result and for an empty list, a text for a single record and for a   *)
(* one-element list, and for a list of n >= 2 records a table of exactly n *)
(* rows whose row i is built from record i.                                *)
C27_AnswerShape ==
  \A r \in Requests :
    Formatted(r) =>
      LET results == proc[r].results
          answer == proc[r].answer
          n == Len(results.recs)
      IN /\ (results.kind = "null" \/ (results.kind = "list" /\ n = 0))
              => /\ answer.format = "text"
                 /\ answer.data = sNoData
         /\ (results.kind = "doc" \/ (results.kind = "list" /\ n = 1))
              => /\ answer.format = "text"
                 /\ answer.data = TextData(results.recs[1])
                 /\ answer.data # sNoData
         /\ (results.kind = "list" /\ n >= 2)
              => /\ answer.format = "table"
                 /\ Len(answer.rows) = n
                 /\ \A i \in 1..n :
                      /\ answer.rows[i] = TableRow(results.recs[i])
                      /\ results.recs[i].name.t = "str"
                           => answer.rows[i].Name = results.recs[i].name

(* Three records named B, A, B came back and the table lists them in that  *)
(* order.                                                                  *)
C27_Witness ==
  /\ Formatted(1)
  /\ proc[1].results.kind = "list"
  /\ Len(proc[1].results.recs) = MaxRows
  /\ proc[1].answer.format = "table"
  /\ [i \in 1..MaxRows |-> proc[1].answer.rows[i].Name] =
       <<Str(<<"B">>), Str(<<"A">>), Str(<<"B">>)>>

(* C28: in the single-record text and in every table row, a numeric field *)
(* (runs, average, strike rate, matches) that the record lacks is rendered *)
(* as 0 or "0.00".                                                         *)
C28_MissingNumbersAsZero ==
  \A r \in Requests :
    Formatted(r) =>
      LET results == proc[r].results
          answer == proc[r].answer
      IN /\ (answer.format = "text" /\ answer.data # sNoData)
              => LET player == results.recs[1] IN
                 /\ player.runs = Undef
                      => Includes(answer.data, <<","," ","R","u","n","s",":"," ","0",",">>)
                 /\ player.average = Undef
                      => Includes(answer.data, <<","," ","A","v","e","r","a","g","e",":"," ","0",".","0","0",",">>)
                 /\ player.strikeRate = Undef
                      => Includes(answer.data, <<","," ","S","t","r","i","k","e"," ","R","a","t","e",":"," ","0",".","0","0">>)
         /\ answer.format = "table"
              => \A i \in 1..Len(answer.rows) :
                   LET player == results.recs[i]
                       row == answer.rows[i]
                   IN /\ player.runs = Undef => row.Runs = Num(0)
                      /\ player.average = Undef
                           => row.Average = Str(<<"0",".","0","0">>)
                      /\ player.strikeRate = Undef
                           => row.StrikeRate = Str(<<"0",".","0","0">>)
                      /\ player.matches = Undef => row.Matches = Num(0)

----------------------------------------------------------------------------
(* Progress of a request.                                                  *)

(* C12: every request that has started receives a response in the end,    *)
(* also when a model call of the relevancy check, the synthesis or the     *)
(* summarization never returns.                                            *)
C12_EventuallyResponds ==
  \A r \in Requests : (proc[r].pc # "idle") ~> Done(r)

====
